---- MODULE Spec2Model ----
(***************************************************************************)
(* SCRU128 generator (src/generator.go, the current Generator at lines     *)
(* 155-378) and the Id value type (src/identifier.go, lines 184-417).      *)
(*                                                                         *)
(* The generator's state is the record g.  The algorithm is written once, *)
(* one source statement per operator (Exec runs the statement a frame is   *)
(* at).  A single caller of the unlocked Core entry points runs a whole    *)
(* call per action (Spec); threads going through the locked wrappers       *)
(* Generate / GenerateOrAbort run it a statement at a time (SpecThreads).  *)
(*                                                                         *)
(* TLC's integers are 32 bits wide, so the 48-bit timestamp domain is      *)
(* scaled to TimestampBits bits; the counters keep their 24 bits and the   *)
(* random words are drawn from values below 2^31.                          *)
(***************************************************************************)
EXTENDS Integers, Sequences, FiniteSets, TLC

VARIABLES
    g,      \* the Generator's fields timestamp, counterHi, counterLo, tsCounterHi
    lock,   \* Generator.lock: 0 when free, else the thread holding it
    th,     \* per thread: the frame of the call in progress
    last,   \* the most recently completed call, as its caller saw it
    before, \* the IDs returned by the calls completed before that one
    calls,  \* the number of calls started so far
    codec   \* the conversion of an Id in progress, and the one before it

vars == <<g, lock, th, last, before, calls, codec>>

-----------------------------------------------------------------------------
(* Bounds of the model *)

\* width of the timestamp field (48 in the program)
TimestampBits == 14
\* calls made by the single caller of both Core entry points
MaxCalls == 2
\* calls made by the single caller of GenerateOrAbortCore alone
MaxAbortCalls == 3
\* threads sharing the generator, and the calls they make between them
NThreads == 2
MaxThreadCalls == 3
MaxResetCalls == 3
MaxUnlockedCalls == 2
MaxFairCalls == 2

-----------------------------------------------------------------------------
(* Program constants *)

maxTimestamp == 2^TimestampBits - 1
maxCounterHi == 16777215
maxCounterLo == 16777215
defaultRollbackAllowance == 10000

Threads == 1..NThreads
Caller == 1

\* timestamp arguments in range: values 1, 999 and 1000 apart and the
\* domain's maximum
Timestamps == {1, 2, 1001, maxTimestamp}
\* rollbackAllowance arguments in range
Allowances == {0, 1}
\* arguments out of range: a zero timestamp, a timestamp and an allowance one
\* past the maximum
BadArguments == {<<0, 0>>, <<maxTimestamp + 1, 0>>, <<1, maxTimestamp + 1>>}
Arguments == (Timestamps \X Allowances) \cup BadArguments
\* what time.Now().UnixMilli() may read: the wall clock can step backwards,
\* here by more than defaultRollbackAllowance
ClockValues == {1001, 11002}
\* words the random number generator may deliver (0x00000000, 0x7fffffff)
RngValues == {0, 2147483647}
\* one rng.Read: the word left in the buffer and whether Read reported an error
RngReads == [n : RngValues, fail : BOOLEAN]
\* for the statements that read nothing
NoRead == [n |-> 0, fail |-> FALSE]

-----------------------------------------------------------------------------
(* Id *)

Byte(x) == x % 256
\* x >> k, for the values below 2^31 that the checker's integers can hold
Shr(x, k) == IF k >= 31 THEN 0 ELSE x \div (2^k)

\* Id{}: the zero value returned beside every error
ZeroId == [i \in 1..16 |-> 0]

FromFieldsPanics(timestamp, counterHi, counterLo) ==
    \/ timestamp > maxTimestamp
    \/ counterHi > maxCounterHi
    \/ counterLo > maxCounterLo

FromFields(timestamp, counterHi, counterLo, entropy) ==
    << Byte(Shr(timestamp, 40)), Byte(Shr(timestamp, 32)), Byte(Shr(timestamp, 24)),
       Byte(Shr(timestamp, 16)), Byte(Shr(timestamp, 8)), Byte(timestamp),
       Byte(Shr(counterHi, 16)), Byte(Shr(counterHi, 8)), Byte(counterHi),
       Byte(Shr(counterLo, 16)), Byte(Shr(counterLo, 8)), Byte(counterLo),
       Byte(Shr(entropy, 24)), Byte(Shr(entropy, 16)), Byte(Shr(entropy, 8)),
       Byte(entropy) >>

RECURSIVE bytesToUint64(_)
bytesToUint64(bigEndian) ==
    IF Len(bigEndian) = 0 THEN 0
    ELSE bytesToUint64(SubSeq(bigEndian, 1, Len(bigEndian) - 1)) * 256
         + bigEndian[Len(bigEndian)]

Timestamp(bs) == bytesToUint64(SubSeq(bs, 1, 6))
CounterHi(bs) == bytesToUint64(SubSeq(bs, 7, 9))
CounterLo(bs) == bytesToUint64(SubSeq(bs, 10, 12))
Entropy(bs) == bytesToUint64(SubSeq(bs, 13, 16))

\* a comparison that lets the last differing byte decide
CmpFromEnd(bs, other) ==
    LET diff == {i \in 1..16 : bs[i] # other[i]} IN
    IF diff = {} THEN 0
    ELSE LET i == CHOOSE k \in diff : \A m \in diff : k >= m IN
         IF bs[i] < other[i] THEN -1 ELSE 1

\* bytes.Compare
Cmp(bs, other) ==
    LET diff == {i \in 1..16 : bs[i] # other[i]} IN
    IF diff = {} THEN 0
    ELSE LET i == CHOOSE k \in diff : \A m \in diff : k <= m IN
         IF bs[i] < other[i] THEN -1 ELSE 1

-----------------------------------------------------------------------------
(* Text and binary forms of Id (src/identifier.go, lines 276-401).  A text  *)
(* is a sequence of bytes.  The uint64 variable carry of the two converters *)
(* is held as eight base-256 limbs, least significant first, because the    *)
(* checker's integers are 32 bits wide; its operations are long arithmetic  *)
(* on the limbs, modulo 2^64.                                                *)

\* uint64(0)
Uint64Zero == <<0, 0, 0, 0, 0, 0, 0, 0>>

\* a test of the low byte of carry only
PositiveLow(w) == w[1] # 0

\* carry > 0
Positive(w) == \E i \in 1..8 : w[i] # 0

\* bytesToUint64 of a slice of at most eight bytes, as limbs
bytesToWord(bigEndian) ==
    [i \in 1..8 |-> IF i <= Len(bigEndian) THEN bigEndian[Len(bigEndian) + 1 - i] ELSE 0]

\* the digit left by the words before is not carried into this one
AddNothing(w, b) == w

\* identifier.go:315: carry += uint64(text[j]) << 56
AddShl56(w, b) == [w EXCEPT ![8] = (@ + b) % 256]

\* carry / 36 and carry % 36 by long division from the top limb down
RECURSIVE DivMod36From(_, _, _)
DivMod36From(w, i, rem) ==
    IF i = 0 THEN [q |-> w, r |-> rem]
    ELSE LET cur == rem * 256 + w[i] IN
         DivMod36From([w EXCEPT ![i] = cur \div 36], i - 1, cur % 36)

\* a division that leaves the top byte of carry out
DivMod36Low(w) == DivMod36From(w, 7, 0)

\* identifier.go:316-317
DivMod36(w) == DivMod36From(w, 8, 0)

\* w * m + c for m, c below 256, from the lowest limb up; what does not fit
\* in 64 bits is lost
RECURSIVE MulAddFrom(_, _, _, _)
MulAddFrom(w, i, m, c) ==
    IF i > 8 THEN w
    ELSE LET cur == w[i] * m + c IN
         MulAddFrom([w EXCEPT ![i] = cur % 256], i + 1, m, cur \div 256)

\* w + v modulo 2^64
RECURSIVE AddFrom(_, _, _, _)
AddFrom(w, v, i, c) ==
    IF i > 8 THEN w
    ELSE LET cur == w[i] + v[i] + c IN
         AddFrom([w EXCEPT ![i] = cur % 256], v, i + 1, cur \div 256)

\* the low 32 bits of that constant
pow36to10Low == <<0, 0, 16, 185, 0, 0, 0, 0>>

\* identifier.go:394: the constant 3656158440062976 (36^10 = 0x000cfd41b9100000)
pow36to10 == <<0, 0, 16, 185, 65, 253, 12, 0>>

\* identifier.go:394: carry += uint64(bs[j]) * 3656158440062976
AddTimesPow(w, b) == AddFrom(w, MulAddFrom(pow36to10, 1, b, 0), 1, 0)

\* identifier.go:396: carry >> 8
Shr8(w) == Tail(w) \o <<0>>

\* identifier.go:295: the characters "0123456789ABCDEFGHIJKLMNOPQRSTUVWXYZ"
digits ==
    <<48, 49, 50, 51, 52, 53, 54, 55, 56, 57,
      65, 66, 67, 68, 69, 70, 71, 72, 73, 74, 75, 76, 77,
      78, 79, 80, 81, 82, 83, 84, 85, 86, 87, 88, 89, 90>>

\* the frame of a conversion: where it is (pc), the method (op), the Id it
\* reads or writes (bs), its argument (in), and its local variables
IdleConv ==
    [pc |-> "idle", op |-> "none", bs |-> ZeroId, in |-> <<>>, text |-> <<>>,
     src |-> <<>>, carry |-> Uint64Zero, i |-> 0, j |-> 0, minIndex |-> 0,
     err |-> "nil", panic |-> FALSE]

\* identifier.go:303-309: the 56-bit word that starts at byte i (from 0)
EncodeWord(bs, i) ==
    bytesToWord(IF i < 0 THEN SubSeq(bs, 1, i + 7) ELSE SubSeq(bs, i + 1, i + 7))

\* Id.MarshalText, up to the first test of the inner loop (identifier.go:299-314)
MarshalText(bs) ==
    [IdleConv EXCEPT !.pc = "EncodeLoop", !.op = "MarshalText", !.bs = bs, !.in = bs,
                     !.text = [k \in 1..25 |-> 0], !.carry = EncodeWord(bs, -5),
                     !.i = -5, !.j = 24, !.minIndex = 99]

\* identifier.go:314-325: one test of the inner loop.  While it holds, one
\* pass of the body (j counted from 0 as in the source; text[j] with j < 0 is
\* a run-time panic).  When it fails, minIndex = j and the next word, or
\* after the last word the digit values are replaced by their characters.
EncodeLoop(c) ==
    IF Positive(c.carry) \/ c.j > c.minIndex
    THEN IF c.j < 0 THEN [c EXCEPT !.pc = "done", !.panic = TRUE]
         ELSE LET dm == DivMod36(AddShl56(c.carry, c.text[c.j + 1])) IN
              [c EXCEPT !.text[c.j + 1] = dm.r, !.carry = dm.q, !.j = @ - 1]
    ELSE IF c.i + 7 >= 16
    THEN [c EXCEPT !.pc = "done", !.minIndex = c.j, !.i = @ + 7,
                   !.text = [k \in 1..25 |-> digits[c.text[k] + 1]]]
    ELSE [c EXCEPT !.minIndex = c.j, !.i = @ + 7, !.carry = EncodeWord(c.bs, c.i + 7),
                   !.j = 24]

\* a table without 0xff entries: every byte is taken for a digit
decodeMapAny == [k \in 1..256 |-> (k - 1) % 36]

\* identifier.go:329-350: from byte values to Base36 digit values, 255 (0xff)
\* for the bytes that are no digit
decodeMap ==
    <<255, 255, 255, 255, 255, 255, 255, 255, 255, 255, 255, 255, 255, 255, 255, 255,
       255, 255, 255, 255, 255, 255, 255, 255, 255, 255, 255, 255, 255, 255, 255, 255,
       255, 255, 255, 255, 255, 255, 255, 255, 255, 255, 255, 255, 255, 255, 255, 255,
       0, 1, 2, 3, 4, 5, 6, 7, 8, 9, 255, 255, 255, 255, 255, 255,
       255, 10, 11, 12, 13, 14, 15, 16, 17, 18, 19, 20, 21, 22, 23, 24,
       25, 26, 27, 28, 29, 30, 31, 32, 33, 34, 35, 255, 255, 255, 255, 255,
       255, 10, 11, 12, 13, 14, 15, 16, 17, 18, 19, 20, 21, 22, 23, 24,
       25, 26, 27, 28, 29, 30, 31, 32, 33, 34, 35, 255, 255, 255, 255, 255,
       255, 255, 255, 255, 255, 255, 255, 255, 255, 255, 255, 255, 255, 255, 255, 255,
       255, 255, 255, 255, 255, 255, 255, 255, 255, 255, 255, 255, 255, 255, 255, 255,
       255, 255, 255, 255, 255, 255, 255, 255, 255, 255, 255, 255, 255, 255, 255, 255,
       255, 255, 255, 255, 255, 255, 255, 255, 255, 255, 255, 255, 255, 255, 255, 255,
       255, 255, 255, 255, 255, 255, 255, 255, 255, 255, 255, 255, 255, 255, 255, 255,
       255, 255, 255, 255, 255, 255, 255, 255, 255, 255, 255, 255, 255, 255, 255, 255,
       255, 255, 255, 255, 255, 255, 255, 255, 255, 255, 255, 255, 255, 255, 255, 255,
       255, 255, 255, 255, 255, 255, 255, 255, 255, 255, 255, 255, 255, 255, 255, 255 >>

\* identifier.go:383-385: carry = (carry * 36) + uint64(e) over the digits of
\* the word.  The value stays below 36^10 < 2^52; it is held here as its low
\* 24 bits and the bits above them.
RECURSIVE WordSum(_)
WordSum(word) ==
    IF word = <<>> THEN [hi |-> 0, lo |-> 0]
    ELSE LET v == WordSum(SubSeq(word, 1, Len(word) - 1))
             t == v.lo * 36 + word[Len(word)]
         IN  [hi |-> v.hi * 36 + t \div 16777216, lo |-> t % 16777216]

\* the same value as a uint64
WordValue(word) ==
    LET v == WordSum(word) IN
    << v.lo % 256, (v.lo \div 256) % 256, v.lo \div 65536,
       v.hi % 256, (v.hi \div 256) % 256, (v.hi \div 65536) % 256, v.hi \div 16777216, 0 >>

\* identifier.go:376-385: the value of the 10-digit word that starts at digit
\* i (from 0)
DecodeWord(src, i) ==
    WordValue(IF i < 0 THEN SubSeq(src, 1, i + 10) ELSE SubSeq(src, i + 1, i + 10))

\* an UnmarshalText that clears the receiver before it looks at the digits
UnmarshalTextClearFirst(op, bs, text) ==
    LET c == [IdleConv EXCEPT !.op = op, !.bs = bs, !.in = text] IN
    IF Len(text) # 25 THEN [c EXCEPT !.pc = "done", !.err = "invalid length"]
    ELSE IF \E k \in 1..25 : decodeMap[text[k] + 1] = 255
    THEN [c EXCEPT !.pc = "done", !.err = "invalid digit", !.bs = ZeroId]
    ELSE LET src == [k \in 1..25 |-> decodeMap[text[k] + 1]] IN
         [c EXCEPT !.pc = "DecodeLoop", !.src = src, !.bs = ZeroId,
                   !.carry = DecodeWord(src, -5), !.i = -5, !.j = 15, !.minIndex = 99]

\* Id.UnmarshalText on receiver bs, called as method op, up to the first test
\* of the inner loop (identifier.go:357-390); the receiver is never nil here
UnmarshalTextAs(op, bs, text) ==
    LET c == [IdleConv EXCEPT !.op = op, !.bs = bs, !.in = text] IN
    IF Len(text) # 25 THEN [c EXCEPT !.pc = "done", !.err = "invalid length"]
    ELSE IF \E k \in 1..25 : decodeMap[text[k] + 1] = 255
    THEN [c EXCEPT !.pc = "done", !.err = "invalid digit"]
    ELSE LET src == [k \in 1..25 |-> decodeMap[text[k] + 1]] IN
         [c EXCEPT !.pc = "DecodeLoop", !.src = src, !.bs = ZeroId,
                   !.carry = DecodeWord(src, -5), !.i = -5, !.j = 15, !.minIndex = 99]

UnmarshalText(bs, text) == UnmarshalTextAs("UnmarshalText", bs, text)

\* identifier.go:390-400: one test of the inner loop.  While it holds, one
\* pass of the body (j counted from 0); when it fails, minIndex = j and the
\* next word, or return nil after the last.
DecodeLoop(c) ==
    IF Positive(c.carry) \/ c.j > c.minIndex
    THEN IF c.j < 0 THEN [c EXCEPT !.pc = "done", !.err = "out of 128-bit value range"]
         ELSE LET sum == AddTimesPow(c.carry, c.bs[c.j + 1]) IN
              [c EXCEPT !.bs[c.j + 1] = sum[1], !.carry = Shr8(sum), !.j = @ - 1]
    ELSE IF c.i + 10 >= 25
    THEN [c EXCEPT !.pc = "done", !.minIndex = c.j, !.i = @ + 10]
    ELSE [c EXCEPT !.minIndex = c.j, !.i = @ + 10, !.carry = DecodeWord(c.src, c.i + 10),
                   !.j = 15]

\* Parse: UnmarshalText on a new Id
Parse(strValue) == UnmarshalTextAs("Parse", ZeroId, strValue)

\* Id.MarshalBinary: bs[:], nil
MarshalBinary(bs) ==
    [IdleConv EXCEPT !.pc = "done", !.op = "MarshalBinary", !.bs = bs, !.in = bs, !.text = bs]

\* an UnmarshalBinary that takes every input for a text
UnmarshalBinaryAsText(bs, data) == UnmarshalTextAs("UnmarshalBinary", bs, data)

\* Id.UnmarshalBinary on receiver bs
UnmarshalBinary(bs, data) ==
    IF Len(data) = 16
    THEN [IdleConv EXCEPT !.pc = "done", !.op = "UnmarshalBinary", !.bs = data, !.in = data]
    ELSE UnmarshalTextAs("UnmarshalBinary", bs, data)

\* the statement a conversion is at
ConvStep(c) ==
    CASE c.pc = "EncodeLoop" -> EncodeLoop(c)
      [] c.pc = "DecodeLoop" -> DecodeLoop(c)

-----------------------------------------------------------------------------
(* Fields of full width (src/identifier.go, lines 197-253).  A uint64 is    *)
(* eight limbs and a uint32 four, least significant first, so that the 48   *)
(* bits of the timestamp and the 32 bits of the entropy are all there.      *)

\* byte(x) without the shift
ByteLow(x, shift) == x[1]

\* byte(x >> shift), shift a multiple of 8
ByteShr(x, shift) == x[shift \div 8 + 1]

\* a FromFields without the check of its arguments: the bytes are cut out of
\* whatever it is given
FieldsNeverOutOfRange(timestamp, counterHi, counterLo) == FALSE

\* identifier.go:203-205: timestamp > maxTimestamp (2^48 - 1), counterHi >
\* maxCounterHi, counterLo > maxCounterLo (2^24 - 1)
FieldsOutOfRange(timestamp, counterHi, counterLo) ==
    \/ timestamp[7] # 0 \/ timestamp[8] # 0
    \/ counterHi[4] # 0
    \/ counterLo[4] # 0

\* uint32(x) of a uint64
Uint32(x) == SubSeq(x, 1, 4)

\* identifier.go:236-253
TimestampWord(bs) == bytesToWord(SubSeq(bs, 1, 6))
CounterHiWord(bs) == Uint32(bytesToWord(SubSeq(bs, 7, 9)))
CounterLoWord(bs) == Uint32(bytesToWord(SubSeq(bs, 10, 12)))
EntropyWord(bs) == Uint32(bytesToWord(SubSeq(bs, 13, 16)))

\* FromFields on arguments of full width: the Id it returns (bs), or a panic
FromFieldsWords(timestamp, counterHi, counterLo, entropy) ==
    LET c == [IdleConv EXCEPT !.pc = "done", !.op = "FromFields",
                              !.in = <<timestamp, counterHi, counterLo, entropy>>] IN
    IF FieldsOutOfRange(timestamp, counterHi, counterLo) THEN [c EXCEPT !.panic = TRUE]
    ELSE [c EXCEPT !.bs =
            << ByteShr(timestamp, 40), ByteShr(timestamp, 32), ByteShr(timestamp, 24),
               ByteShr(timestamp, 16), ByteShr(timestamp, 8), ByteShr(timestamp, 0),
               ByteShr(counterHi, 16), ByteShr(counterHi, 8), ByteShr(counterHi, 0),
               ByteShr(counterLo, 16), ByteShr(counterLo, 8), ByteShr(counterLo, 0),
               ByteShr(entropy, 24), ByteShr(entropy, 16), ByteShr(entropy, 8),
               ByteShr(entropy, 0) >>]

\* x.Timestamp(), x.CounterHi(), x.CounterLo(), x.Entropy(), in this order (in)
Fields(bs) ==
    [IdleConv EXCEPT !.pc = "done", !.op = "Fields", !.bs = bs,
                     !.in = <<TimestampWord(bs), CounterHiWord(bs), CounterLoWord(bs),
                              EntropyWord(bs)>>]

-----------------------------------------------------------------------------
(* Inputs of the conversions *)

\* the Id whose bytes a..b are v and the others zero
Span(a, b, v) == [k \in 1..16 |-> IF a <= k /\ k <= b THEN v ELSE 0]

\* the byte ranges of the four fields, of the three 56-bit words of
\* MarshalText, and of the whole Id
Spans == {<<1, 6>>, <<7, 9>>, <<10, 12>>, <<13, 16>>, <<1, 2>>, <<3, 9>>, <<10, 16>>, <<1, 16>>}

\* Ids to convert: zero, the maximum, one field or word filled, one byte set,
\* and one with sixteen different bytes
Ids ==
    {ZeroId, <<1, 2, 3, 4, 5, 6, 7, 8, 9, 10, 11, 12, 13, 14, 15, 16>>}
    \cup {Span(sp[1], sp[2], v) : sp \in Spans, v \in {1, 255}}
    \cup {Span(p, p, v) : p \in 1..16, v \in {1, 128, 255}}

\* Ids to compare with each other
OrderIds ==
    {ZeroId, Span(1, 16, 255), Span(13, 16, 255), Span(10, 12, 255)}
    \cup {Span(p, p, v) : p \in {1, 2, 9, 10, 16}, v \in {1, 255}}

\* "f5lxx1zz5pnorynqglhzmsp33"
MaxText == <<102, 53, 108, 120, 120, 49, 122, 122, 53, 112, 110, 111, 114, 121, 110, 113, 103, 108, 104, 122, 109, 115, 112, 51, 51>>

\* "036z8puq4tsxsigk6o19y164q"
GoodText == <<48, 51, 54, 122, 56, 112, 117, 113, 52, 116, 115, 120, 115, 105, 103, 107, 54, 111, 49, 57, 121, 49, 54, 52, 113>>

\* the strings of TestEncodeDecode, and three more of mixed case:
\*   "0000000000000000000000000"
\*   "F5LXX1ZZ5K6TP71GEEH2DB7K0"
\*   "f5lxx1zz5k6tp71geeh2db7k0"
\*   "0000000005GV2R2KJWR7N8XS0"
\*   "0000000005gv2r2kjwr7n8xs0"
\*   "00000000000000JPIA7QL4HS0"
\*   "00000000000000jpia7ql4hs0"
\*   "0000000000000000001Z141Z3"
\*   "0000000000000000001z141z3"
\*   "F5LXX1ZZ5PNORYNQGLHZMSP33"
\*   "f5lxx1zz5pnorynqglhzmsp33"
\*   "036z8puq4tsxsigk6o19y164q"
\*   "036Z8puQ54qNY1vq3hCBrkWeb"
\*   "f5LXx1zZ5pnoRYNqglhzMSP33"
SampleTexts ==
    {
      <<48, 48, 48, 48, 48, 48, 48, 48, 48, 48, 48, 48, 48, 48, 48, 48, 48, 48, 48, 48, 48, 48, 48, 48, 48>>,
      <<70, 53, 76, 88, 88, 49, 90, 90, 53, 75, 54, 84, 80, 55, 49, 71, 69, 69, 72, 50, 68, 66, 55, 75, 48>>,
      <<102, 53, 108, 120, 120, 49, 122, 122, 53, 107, 54, 116, 112, 55, 49, 103, 101, 101, 104, 50, 100, 98, 55, 107, 48>>,
      <<48, 48, 48, 48, 48, 48, 48, 48, 48, 53, 71, 86, 50, 82, 50, 75, 74, 87, 82, 55, 78, 56, 88, 83, 48>>,
      <<48, 48, 48, 48, 48, 48, 48, 48, 48, 53, 103, 118, 50, 114, 50, 107, 106, 119, 114, 55, 110, 56, 120, 115, 48>>,
      <<48, 48, 48, 48, 48, 48, 48, 48, 48, 48, 48, 48, 48, 48, 74, 80, 73, 65, 55, 81, 76, 52, 72, 83, 48>>,
      <<48, 48, 48, 48, 48, 48, 48, 48, 48, 48, 48, 48, 48, 48, 106, 112, 105, 97, 55, 113, 108, 52, 104, 115, 48>>,
      <<48, 48, 48, 48, 48, 48, 48, 48, 48, 48, 48, 48, 48, 48, 48, 48, 48, 48, 49, 90, 49, 52, 49, 90, 51>>,
      <<48, 48, 48, 48, 48, 48, 48, 48, 48, 48, 48, 48, 48, 48, 48, 48, 48, 48, 49, 122, 49, 52, 49, 122, 51>>,
      <<70, 53, 76, 88, 88, 49, 90, 90, 53, 80, 78, 79, 82, 89, 78, 81, 71, 76, 72, 90, 77, 83, 80, 51, 51>>,
      <<102, 53, 108, 120, 120, 49, 122, 122, 53, 112, 110, 111, 114, 121, 110, 113, 103, 108, 104, 122, 109, 115, 112, 51, 51>>,
      <<48, 51, 54, 122, 56, 112, 117, 113, 52, 116, 115, 120, 115, 105, 103, 107, 54, 111, 49, 57, 121, 49, 54, 52, 113>>,
      <<48, 51, 54, 90, 56, 112, 117, 81, 53, 52, 113, 78, 89, 49, 118, 113, 51, 104, 67, 66, 114, 107, 87, 101, 98>>,
      <<102, 53, 76, 88, 120, 49, 122, 90, 53, 112, 110, 111, 82, 89, 78, 113, 103, 108, 104, 122, 77, 83, 80, 51, 51>> }

\* inputs of a length other than 25: "", 24 and 26 digits, 16 digits
WrongLengthTexts ==
    {<<>>, [k \in 1..24 |-> 48], [k \in 1..26 |-> 48], [k \in 1..16 |-> 48]}

\* the bytes that are none of '0'-'9', 'A'-'Z', 'a'-'z': control characters,
\* space, punctuation ('+', '-', '_', ...) and the bytes above 127, of which
\* multi-byte characters consist
BadBytes == (0..255) \ ((48..57) \cup (65..90) \cup (97..122))

\* 25-byte inputs with one byte that is no digit, at the first or the last
\* place of one of the three words of UnmarshalText
BadDigitTexts == {[GoodText EXCEPT ![p] = b] : p \in {1, 5, 6, 15, 16, 25}, b \in BadBytes}

\* the next digit character after c ('9' is followed by 'a', 'z' by itself)
NextDigit(c) == IF c = 57 THEN 97 ELSE IF c = 122 THEN 122 ELSE c + 1

\* 25-digit inputs around the largest value: MaxText with one digit replaced
\* by '0', by the next digit, by 'z' or by 'Z', and texts of one, five,
\* fifteen and twenty-five 'z' followed by '0'
MagnitudeTexts ==
    {[MaxText EXCEPT ![p] = d] : p \in 1..25, d \in {48, 122, 90}}
    \cup {[MaxText EXCEPT ![p] = NextDigit(MaxText[p])] : p \in 1..25}
    \cup {[k \in 1..25 |-> IF k <= n THEN 122 ELSE 48] : n \in {1, 5, 15, 25}}

Texts == SampleTexts \cup WrongLengthTexts \cup BadDigitTexts \cup MagnitudeTexts

\* strings.ToUpper and strings.ToLower on ASCII bytes
ToUpper(t) == [k \in 1..Len(t) |-> IF t[k] >= 97 /\ t[k] <= 122 THEN t[k] - 32 ELSE t[k]]
ToLower(t) == [k \in 1..Len(t) |-> IF t[k] >= 65 /\ t[k] <= 90 THEN t[k] + 32 ELSE t[k]]

\* arguments of UnmarshalBinary: 16 bytes (also 16 bytes that are digits), a
\* text, and inputs that are neither
Datas ==
    {ZeroId, Span(1, 16, 255), Span(1, 16, 48), MaxText, ToUpper(GoodText),
      [MaxText EXCEPT ![25] = 52], [GoodText EXCEPT ![5] = 95],
      <<>>, [k \in 1..15 |-> 48], [k \in 1..17 |-> 48]}

\* timestamp arguments of FromFields: zero, one, the maximum, one byte set,
\* six different bytes, and two above the maximum (2^48, 2^64 - 1)
TimestampWords ==
    {Uint64Zero, <<1, 0, 0, 0, 0, 0, 0, 0>>, <<255, 255, 255, 255, 255, 255, 0, 0>>,
     <<17, 34, 51, 68, 85, 102, 0, 0>>,
     <<0, 0, 0, 0, 0, 0, 1, 0>>, <<255, 255, 255, 255, 255, 255, 255, 255>>}
    \cup {[k \in 1..8 |-> IF k = p THEN 128 ELSE 0] : p \in 1..6}

\* counter arguments: zero, the maximum, three different bytes, and 2^24
CounterWords == {<<0, 0, 0, 0>>, <<255, 255, 255, 0>>, <<1, 2, 3, 0>>, <<0, 0, 0, 1>>}

\* entropy arguments
EntropyWords == {<<0, 0, 0, 0>>, <<255, 255, 255, 255>>, <<1, 2, 3, 4>>, <<0, 0, 0, 128>>}

FieldTuples == TimestampWords \X CounterWords \X CounterWords \X EntropyWords

-----------------------------------------------------------------------------
(* Generator *)

\* &Generator{rng: rng}: every field has its zero value
NewGeneratorWithRng == [timestamp |-> 0, counterHi |-> 0, counterLo |-> 0, tsCounterHi |-> 0]

\* the frame of a call: where it is, its arguments, what it returns, and what
\* an observer of the call would note (the state it started from, the number
\* of random words drawn and the words themselves, the branch taken, the draw
\* that failed and the generator as it was when that draw failed, and whether
\* a call of the thread ever ran while another thread was in a call)
IdleFrame ==
    [pc |-> "idle", op |-> "none", timestamp |-> 0, rollbackAllowance |-> 0,
     pass |-> 0, pre |-> NewGeneratorWithRng, draws |-> 0, words |-> <<>>,
     status |-> "NotExecuted",
     reset |-> FALSE, failedAt |-> "none", atFail |-> NewGeneratorWithRng,
     kind |-> "none", msg |-> "", id |-> ZeroId, overlapped |-> FALSE]

ResetFlavor(op) == op \in {"Generate", "GenerateOrResetCore"}
Locked(op) == op \in {"Generate", "GenerateOrAbort"}

\* a frame entering GenerateOrAbortCore with the arguments of entry point op
Enter(op, timestamp, rollbackAllowance, gg) ==
    [IdleFrame EXCEPT !.pc = "CheckArguments", !.op = op, !.timestamp = timestamp,
                      !.rollbackAllowance = rollbackAllowance, !.pass = 1, !.pre = gg]

\* the frame after GenerateOrAbortCore returned (kind, id) or panicked with msg
Returned(f, kind, msg, id) ==
    [f EXCEPT !.pc = "Returned", !.kind = kind, !.msg = msg, !.id = id]

At(gg, f, pc) == [g |-> gg, f |-> [f EXCEPT !.pc = pc]]

-----------------------------------------------------------------------------
(* GenerateOrAbortCore, one statement per operator: each maps the generator *)
(* gg and the frame f to the generator and frame after the statement        *)

\* generator.go:307: the timestamp argument is not a 48-bit positive integer
TimestampOutOfRange(timestamp) == timestamp = 0 \/ timestamp > maxTimestamp

\* generator.go:309
AllowanceOutOfRange(rollbackAllowance) == rollbackAllowance > maxTimestamp

\* generator.go:314
IsNewTimestamp(timestamp, gTimestamp) == timestamp > gTimestamp

\* the comparison of the earlier releases, which treated a timestamp exactly
\* rollbackAllowance behind as a rollback
WithinAllowanceStrict(timestamp, rollbackAllowance, gTimestamp) ==
    timestamp + rollbackAllowance > gTimestamp

\* generator.go:321: the new timestamp is not much smaller
WithinAllowance(timestamp, rollbackAllowance, gTimestamp) ==
    timestamp + rollbackAllowance >= gTimestamp

\* generator.go:320, 335, 349: n & maxCounterLo, n & maxCounterHi
Mask24(n) == n % (maxCounterLo + 1)

\* an increment that is lost
IncStuck(x) == x

\* generator.go:323, 326, 330: x++ (the operands stay far below the word size)
Inc(x) == x + 1

\* a renewal of counterHi on every call
RenewalEveryCall(gTimestamp, tsCounterHi) == TRUE

\* the test of the releases before v2.1.2, which looked at the age alone
NeedsRenewalByAge(gTimestamp, tsCounterHi) ==
    IF gTimestamp >= tsCounterHi THEN gTimestamp - tsCounterHi >= 1000 ELSE TRUE

\* generator.go:343: g.timestamp-g.tsCounterHi >= 1_000 || g.tsCounterHi == 0.
\* The subtraction is unsigned: with tsCounterHi > timestamp it wraps around
\* to a value above 2^63, which is >= 1000.
NeedsRenewal(gTimestamp, tsCounterHi) ==
    \/ IF gTimestamp >= tsCounterHi THEN gTimestamp - tsCounterHi >= 1000 ELSE TRUE
    \/ tsCounterHi = 0

CheckArguments(gg, f) ==
    [g |-> gg,
     f |-> IF TimestampOutOfRange(f.timestamp)
           THEN Returned(f, "panic", "timestamp must be a 48-bit positive integer", ZeroId)
           ELSE IF AllowanceOutOfRange(f.rollbackAllowance)
           THEN Returned(f, "panic", "rollbackAllowance out of reasonable range", ZeroId)
           ELSE [f EXCEPT !.pc = "Branch"]]

\* a branch that clears tsCounterHi itself before it reports the rollback
BranchClobbers(gg, f) ==
    IF IsNewTimestamp(f.timestamp, gg.timestamp)
    THEN [g |-> gg, f |-> [f EXCEPT !.pc = "AdoptTimestamp"]]
    ELSE IF WithinAllowance(f.timestamp, f.rollbackAllowance, gg.timestamp)
    THEN [g |-> gg, f |-> [f EXCEPT !.pc = "IncCounterLo"]]
    ELSE [g |-> [gg EXCEPT !.tsCounterHi = 0],
          f |-> Returned(f, "ErrClockRollback", "", ZeroId)]

\* generator.go:314, 321, 339-340
Branch(gg, f) ==
    [g |-> gg,
     f |-> IF IsNewTimestamp(f.timestamp, gg.timestamp)
           THEN [f EXCEPT !.pc = "AdoptTimestamp"]
           ELSE IF WithinAllowance(f.timestamp, f.rollbackAllowance, gg.timestamp)
           THEN [f EXCEPT !.pc = "IncCounterLo"]
           ELSE Returned(f, "ErrClockRollback", "", ZeroId)]

\* a new-timestamp branch that forgets to store the timestamp
KeepTimestamp(gg, f) ==
    [g |-> gg, f |-> [f EXCEPT !.pc = "DrawCounterLo", !.status = "NewTimestamp"]]

\* generator.go:315
AdoptTimestamp(gg, f) ==
    [g |-> [gg EXCEPT !.timestamp = f.timestamp],
     f |-> [f EXCEPT !.pc = "DrawCounterLo", !.status = "NewTimestamp"]]

\* a draw whose err is not looked at: the word left in the buffer is used
DrawIntoUnchecked(gg, f, r, field, next) ==
    [g |-> [gg EXCEPT ![field] = Mask24(r.n)],
     f |-> IF r.fail
           THEN [f EXCEPT !.pc = next, !.draws = @ + 1, !.failedAt = f.pc, !.atFail = gg]
           ELSE [f EXCEPT !.pc = next, !.draws = @ + 1]]

\* n, err = g.randomUint32(); if err != nil { return Id{}, err }; <field> = n & mask
DrawInto(gg, f, r, field, next) ==
    IF r.fail
    THEN [g |-> gg,
          f |-> Returned([f EXCEPT !.draws = @ + 1, !.failedAt = f.pc, !.atFail = gg],
                         "RngError", "", ZeroId)]
    ELSE [g |-> [gg EXCEPT ![field] = Mask24(r.n)],
          f |-> [f EXCEPT !.pc = next, !.draws = @ + 1, !.words = Append(@, r.n)]]

DrawCounterLo(gg, f, r) == DrawInto(gg, f, r, "counterLo", "CheckRenewal")

IncCounterLo(gg, f) ==
    [g |-> [gg EXCEPT !.counterLo = Inc(@)],
     f |-> [f EXCEPT !.pc = "CheckCounterLo", !.status = "CounterLoInc"]]

CheckCounterLo(gg, f) ==
    At(gg, f, IF gg.counterLo > maxCounterLo THEN "ClearCounterLo" ELSE "CheckRenewal")

\* an overflow of counterLo that carries without clearing it
KeepCounterLo(gg, f) == At(gg, f, "IncCounterHi")

\* generator.go:325
ClearCounterLo(gg, f) == At([gg EXCEPT !.counterLo = 0], f, "IncCounterHi")

IncCounterHi(gg, f) ==
    [g |-> [gg EXCEPT !.counterHi = Inc(@)],
     f |-> [f EXCEPT !.pc = "CheckCounterHi", !.status = "CounterHiInc"]]

CheckCounterHi(gg, f) ==
    At(gg, f, IF gg.counterHi > maxCounterHi THEN "ClearCounterHi" ELSE "CheckRenewal")

ClearCounterHi(gg, f) == At([gg EXCEPT !.counterHi = 0], f, "IncTimestamp")

\* increment timestamp at counter overflow
IncTimestamp(gg, f) ==
    [g |-> [gg EXCEPT !.timestamp = Inc(@)],
     f |-> [f EXCEPT !.pc = "RedrawCounterLo", !.status = "TimestampInc"]]

RedrawCounterLo(gg, f, r) == DrawInto(gg, f, r, "counterLo", "CheckRenewal")

CheckRenewal(gg, f) ==
    At(gg, f, IF NeedsRenewal(gg.timestamp, gg.tsCounterHi)
              THEN "SetTsCounterHi" ELSE "DrawEntropy")

SetTsCounterHi(gg, f) == At([gg EXCEPT !.tsCounterHi = gg.timestamp], f, "DrawCounterHi")

DrawCounterHi(gg, f, r) == DrawInto(gg, f, r, "counterHi", "DrawEntropy")

\* n, err = g.randomUint32(); return FromFields(g.timestamp, g.counterHi, g.counterLo, n), nil
DrawEntropy(gg, f, r) ==
    LET f1 == [f EXCEPT !.draws = @ + 1] IN
    [g |-> gg,
     f |-> IF r.fail
           THEN Returned([f1 EXCEPT !.failedAt = f.pc, !.atFail = gg], "RngError", "", ZeroId)
           ELSE IF FromFieldsPanics(gg.timestamp, gg.counterHi, gg.counterLo)
           THEN Returned(f1, "panic", "invalid field value", ZeroId)
           ELSE Returned([f1 EXCEPT !.words = Append(@, r.n)], "id", "",
                         FromFields(gg.timestamp, gg.counterHi, gg.counterLo, r.n))]

-----------------------------------------------------------------------------
(* GenerateOrResetCore: the retry after ErrClockRollback *)

\* generator.go:278: err == ErrClockRollback after the first GenerateOrAbortCore
\* a retry after any error of the first pass
ErrorSeen(f) ==
    f.pc = "Returned" /\ ResetFlavor(f.op) /\ f.pass = 1
    /\ f.kind \in {"ErrClockRollback", "RngError"}

\* generator.go:278: err == ErrClockRollback after the first pass
RollbackSeen(f) ==
    f.pc = "Returned" /\ ResetFlavor(f.op) /\ f.pass = 1 /\ f.kind = "ErrClockRollback"

CheckRollback(gg, f) == At(gg, f, "ResetTimestamp")

ResetTimestamp(gg, f) == At([gg EXCEPT !.timestamp = 0], f, "ResetTsCounterHi")

\* a reset that leaves tsCounterHi as it was
KeepTsCounterHi(gg, f) ==
    [g |-> gg,
     f |-> [f EXCEPT !.pc = "CheckArguments", !.pass = 2, !.reset = TRUE, !.kind = "none"]]

\* g.tsCounterHi = 0, then the second GenerateOrAbortCore(timestamp, rollbackAllowance)
ResetTsCounterHi(gg, f) ==
    [g |-> [gg EXCEPT !.tsCounterHi = 0],
     f |-> [f EXCEPT !.pc = "CheckArguments", !.pass = 2, !.reset = TRUE, !.kind = "none"]]

-----------------------------------------------------------------------------
(* Running the statements *)

\* the statements that call randomUint32
DrawPcs == {"DrawCounterLo", "RedrawCounterLo", "DrawCounterHi", "DrawEntropy"}

ReadsAt(pc) == IF pc \in DrawPcs THEN RngReads ELSE {NoRead}

\* the call is over: the entry point hands kind, id (or the panic) to its caller
Finished(f) == f.pc = "Returned" /\ ~RollbackSeen(f)

\* the statement frame f is at, with r what randomUint32 reads there
Exec(gg, f, r) ==
    CASE f.pc = "CheckArguments"   -> CheckArguments(gg, f)
      [] f.pc = "Branch"           -> Branch(gg, f)
      [] f.pc = "AdoptTimestamp"   -> AdoptTimestamp(gg, f)
      [] f.pc = "DrawCounterLo"    -> DrawCounterLo(gg, f, r)
      [] f.pc = "IncCounterLo"     -> IncCounterLo(gg, f)
      [] f.pc = "CheckCounterLo"   -> CheckCounterLo(gg, f)
      [] f.pc = "ClearCounterLo"   -> ClearCounterLo(gg, f)
      [] f.pc = "IncCounterHi"     -> IncCounterHi(gg, f)
      [] f.pc = "CheckCounterHi"   -> CheckCounterHi(gg, f)
      [] f.pc = "ClearCounterHi"   -> ClearCounterHi(gg, f)
      [] f.pc = "IncTimestamp"     -> IncTimestamp(gg, f)
      [] f.pc = "RedrawCounterLo"  -> RedrawCounterLo(gg, f, r)
      [] f.pc = "CheckRenewal"     -> CheckRenewal(gg, f)
      [] f.pc = "SetTsCounterHi"   -> SetTsCounterHi(gg, f)
      [] f.pc = "DrawCounterHi"    -> DrawCounterHi(gg, f, r)
      [] f.pc = "DrawEntropy"      -> DrawEntropy(gg, f, r)
      [] f.pc = "Returned"         -> CheckRollback(gg, f)
      [] f.pc = "ResetTimestamp"   -> ResetTimestamp(gg, f)
      [] f.pc = "ResetTsCounterHi" -> ResetTsCounterHi(gg, f)

\* every way a call in frame f can run to its end, one per outcome of the
\* random reads on its way
RECURSIVE Run(_, _)
Run(gg, f) ==
    IF Finished(f) THEN {[g |-> gg, f |-> f]}
    ELSE UNION {Run(o.g, o.f) : o \in {Exec(gg, f, r) : r \in ReadsAt(f.pc)}}

-----------------------------------------------------------------------------
(* The calls, as their caller sees them *)

\* no conversion made yet
NoConversion == [c |-> IdleConv, prev |-> IdleConv, depth |-> 0, cmp |-> 0]

NoCall ==
    [op |-> "none", timestamp |-> 0, rollbackAllowance |-> 0,
     pre |-> NewGeneratorWithRng, draws |-> 0, words |-> <<>>, status |-> "NotExecuted",
     reset |-> FALSE, failedAt |-> "none", atFail |-> NewGeneratorWithRng,
     kind |-> "none", msg |-> "", id |-> ZeroId, post |-> NewGeneratorWithRng,
     prevKind |-> "none", prevId |-> ZeroId, by |-> 0, prevBy |-> 0, everReset |-> FALSE]

Init ==
    /\ g = NewGeneratorWithRng
    /\ lock = 0
    /\ th = [t \in Threads |-> IdleFrame]
    /\ last = NoCall
    /\ before = {}
    /\ calls = 0
    /\ codec = NoConversion

\* the call of thread t that ended in frame f, leaving the generator as post,
\* joins the history
Complete(t, f, post) ==
    /\ last' = [op |-> f.op, timestamp |-> f.timestamp,
                rollbackAllowance |-> f.rollbackAllowance, pre |-> f.pre,
                draws |-> f.draws, words |-> f.words, status |-> f.status,
                reset |-> f.reset,
                failedAt |-> f.failedAt, atFail |-> f.atFail,
                kind |-> f.kind, msg |-> f.msg, id |-> f.id, post |-> post,
                prevKind |-> last.kind, prevId |-> last.id, by |-> t, prevBy |-> last.by,
                everReset |-> (last.everReset \/ f.reset)]
    /\ before' = IF last.kind = "id" THEN before \cup {last.id} ELSE before

\* a whole call of an unlocked entry point by the single caller
CallCore(op, timestamp, rollbackAllowance) ==
    /\ \E o \in Run(g, Enter(op, timestamp, rollbackAllowance, g)) :
         /\ g' = o.g
         /\ Complete(Caller, o.f, o.g)
    /\ calls' = calls + 1
    /\ UNCHANGED <<lock, th, codec>>

GenerateOrAbortCore(timestamp, rollbackAllowance) ==
    /\ calls < MaxCalls
    /\ CallCore("GenerateOrAbortCore", timestamp, rollbackAllowance)

GenerateOrResetCore(timestamp, rollbackAllowance) ==
    /\ calls < MaxCalls
    /\ CallCore("GenerateOrResetCore", timestamp, rollbackAllowance)

Next ==
    \E a \in Arguments :
        \/ GenerateOrAbortCore(a[1], a[2])
        \/ GenerateOrResetCore(a[1], a[2])

Spec == Init /\ [][Next]_vars

\* the timestamps of TestTimestampRollback, for the width of the model: ts,
\* ts - 10000 and ts - 10001
RollbackTestTimestamps == {11001, 1001, 1000}

\* the calls of the rollback tests: both flavors, allowance 10000
NextRollbackTest ==
    \E timestamp \in RollbackTestTimestamps :
        \/ GenerateOrAbortCore(timestamp, defaultRollbackAllowance)
        \/ GenerateOrResetCore(timestamp, defaultRollbackAllowance)

SpecRollbackTest == Init /\ [][NextRollbackTest]_vars

\* a caller that makes up to MaxResetCalls calls of either unlocked flavor
CoreCall(op, timestamp, rollbackAllowance) ==
    /\ calls < MaxResetCalls
    /\ CallCore(op, timestamp, rollbackAllowance)

NextReset ==
    \E op \in {"GenerateOrAbortCore", "GenerateOrResetCore"}, a \in Arguments :
        CoreCall(op, a[1], a[2])

SpecReset == Init /\ [][NextReset]_vars

\* a caller whose clock never goes backwards: the timestamp of a call is not
\* smaller than that of the call before
SteadyCall(op, timestamp, rollbackAllowance) ==
    /\ timestamp >= last.timestamp
    /\ CoreCall(op, timestamp, rollbackAllowance)

NextSteady ==
    \E op \in {"GenerateOrAbortCore", "GenerateOrResetCore"},
       timestamp \in Timestamps, rollbackAllowance \in Allowances :
        SteadyCall(op, timestamp, rollbackAllowance)

SpecSteady == Init /\ [][NextSteady]_vars

\* a caller that uses the abort flavor only
GenerateOrAbortCoreOnly(timestamp, rollbackAllowance) ==
    /\ calls < MaxAbortCalls
    /\ CallCore("GenerateOrAbortCore", timestamp, rollbackAllowance)

NextAbort == \E a \in Arguments : GenerateOrAbortCoreOnly(a[1], a[2])

SpecAbort == Init /\ [][NextAbort]_vars

-----------------------------------------------------------------------------
(* The locked entry points, called by several threads *)

\* an entry that does not wait for the lock
EnterUnlocked(t, op, now) ==
    /\ th[t].pc = "idle"
    /\ calls < MaxThreadCalls
    /\ lock' = t
    /\ th' = [th EXCEPT ![t] = Enter(op, now, defaultRollbackAllowance, g)]
    /\ calls' = calls + 1
    /\ UNCHANGED <<g, last, before, codec>>

\* g.lock.Lock(); defer g.lock.Unlock(); the timestamp is time.Now().UnixMilli()
LockAndEnter(t, op, now) ==
    /\ th[t].pc = "idle"
    /\ calls < MaxThreadCalls
    /\ lock = 0
    /\ lock' = t
    /\ th' = [th EXCEPT ![t] = Enter(op, now, defaultRollbackAllowance, g)]
    /\ calls' = calls + 1
    /\ UNCHANGED <<g, last, before, codec>>

Generate(t, now) == LockAndEnter(t, "Generate", now)

GenerateOrAbort(t, now) == LockAndEnter(t, "GenerateOrAbort", now)

\* thread t runs the statement it is at
Statement(t) ==
    /\ th[t].pc # "idle"
    /\ ~Finished(th[t])
    /\ \E r \in ReadsAt(th[t].pc) :
         LET o == Exec(g, th[t], r) IN
         /\ g' = o.g
         /\ th' = [th EXCEPT ![t] = o.f]
    /\ UNCHANGED <<lock, last, before, calls, codec>>

\* an Unlock written at the end of the function instead of deferred: it is
\* skipped when the Core call returned an error
UnlockOnSuccess(t) ==
    /\ Finished(th[t])
    /\ Locked(th[t].op)
    /\ lock' = IF th[t].kind = "id" THEN 0 ELSE lock
    /\ Complete(t, th[t], g)
    /\ th' = [th EXCEPT ![t] = IdleFrame]
    /\ UNCHANGED <<g, calls, codec>>

\* the deferred g.lock.Unlock() runs on return and on panic alike
Unlock(t) ==
    /\ Finished(th[t])
    /\ Locked(th[t].op)
    /\ lock' = 0
    /\ Complete(t, th[t], g)
    /\ th' = [th EXCEPT ![t] = IdleFrame]
    /\ UNCHANGED <<g, calls, codec>>

NextThreads ==
    \E t \in Threads :
        \/ \E now \in ClockValues : Generate(t, now) \/ GenerateOrAbort(t, now)
        \/ Statement(t)
        \/ Unlock(t)

SpecThreads == Init /\ [][NextThreads]_vars

\* threads that call Generate only
NextGenerate ==
    \E t \in Threads :
        \/ \E now \in ClockValues : Generate(t, now)
        \/ Statement(t)
        \/ Unlock(t)

SpecGenerate == Init /\ [][NextGenerate]_vars

-----------------------------------------------------------------------------
(* The locked entry points with the wait for the lock, under a fair scheduler *)

\* thread t calls Generate or GenerateOrAbort and reaches g.lock.Lock()
CallLocked(t, op) ==
    /\ th[t].pc = "idle"
    /\ calls < MaxFairCalls
    /\ th' = [th EXCEPT ![t] = [IdleFrame EXCEPT !.pc = "Lock", !.op = op]]
    /\ calls' = calls + 1
    /\ UNCHANGED <<g, lock, last, before, codec>>

\* g.lock.Lock() returns: the lock was free; the thread reads the clock and
\* enters the Core call
Acquire(t, now) ==
    /\ th[t].pc = "Lock"
    /\ lock = 0
    /\ lock' = t
    /\ th' = [th EXCEPT ![t] = Enter(th[t].op, now, defaultRollbackAllowance, g)]
    /\ UNCHANGED <<g, last, before, calls, codec>>

\* the holder of the lock runs the statement it is at; a thread inside
\* g.lock.Lock() runs none
StatementLocked(t) == lock = t /\ th[t].pc # "Lock" /\ Statement(t)

NextFair ==
    \E t \in Threads :
        \/ CallLocked(t, "Generate")
        \/ CallLocked(t, "GenerateOrAbort")
        \/ \E now \in ClockValues : Acquire(t, now)
        \/ StatementLocked(t)
        \/ Unlock(t)

\* the scheduler lets every thread that can take a step take one; a read of
\* the RNG returns (a word or an error); sync.Mutex hands the lock to a
\* waiting thread
SpecFair ==
    /\ Init
    /\ [][NextFair]_vars
    /\ \A t \in Threads :
          /\ WF_vars(\E now \in ClockValues : Acquire(t, now))
          /\ WF_vars(StatementLocked(t))
          /\ WF_vars(Unlock(t))

-----------------------------------------------------------------------------
(* The Core entry points called by several threads without exclusion *)

UnlockedTimestamps == {1}

\* thread t calls a Core entry point: no lock is taken
EnterCore(t, op, timestamp, rollbackAllowance) ==
    /\ th[t].pc = "idle"
    /\ calls < MaxUnlockedCalls
    /\ th' = [u \in Threads |->
                IF u = t
                THEN [Enter(op, timestamp, rollbackAllowance, g) EXCEPT
                          !.overlapped = th[t].overlapped
                                         \/ \E v \in Threads \ {t} : th[v].pc # "idle"]
                ELSE IF th[u].pc # "idle"
                THEN [th[u] EXCEPT !.overlapped = TRUE]
                ELSE th[u]]
    /\ calls' = calls + 1
    /\ UNCHANGED <<g, lock, last, before, codec>>

\* the Core call of thread t returns to its caller
ReturnCore(t) ==
    /\ Finished(th[t])
    /\ ~Locked(th[t].op)
    /\ Complete(t, th[t], g)
    /\ th' = [th EXCEPT ![t] = [IdleFrame EXCEPT !.overlapped = th[t].overlapped]]
    /\ UNCHANGED <<g, lock, calls, codec>>

NextUnlocked ==
    \E t \in Threads :
        \/ \E op \in {"GenerateOrAbortCore", "GenerateOrResetCore"},
              timestamp \in UnlockedTimestamps, rollbackAllowance \in Allowances :
                EnterCore(t, op, timestamp, rollbackAllowance)
        \/ Statement(t)
        \/ ReturnCore(t)

SpecUnlocked == Init /\ [][NextUnlocked]_vars

-----------------------------------------------------------------------------
(* Conversions of Ids by one caller: a conversion of a new input, then      *)
(* possibly one of what it produced                                         *)

\* a conversion starts in frame c; the finished one before it is remembered
Convert(c, cmp) ==
    /\ codec' = [c |-> c, prev |-> codec.c, depth |-> codec.depth + 1, cmp |-> cmp]
    /\ UNCHANGED <<g, lock, th, last, before, calls>>

Fresh == codec.depth = 0
Finished1 == codec.depth = 1 /\ codec.c.pc = "done"

\* x.MarshalText() / x.String()
CallMarshalText(x) == Fresh /\ Convert(MarshalText(x), 0)

\* Parse(t)
CallParse(t) == Fresh /\ Convert(Parse(t), 0)

\* x.MarshalBinary()
CallMarshalBinary(x) == Fresh /\ Convert(MarshalBinary(x), 0)

\* new(Id).UnmarshalBinary(d)
CallUnmarshalBinary(d) == Fresh /\ Convert(UnmarshalBinary(ZeroId, d), 0)

\* Parse(x.String())
ParseString ==
    /\ Finished1 /\ codec.c.op = "MarshalText" /\ ~codec.c.panic
    /\ Convert(Parse(codec.c.text), 0)

\* new(Id).UnmarshalBinary of what x.MarshalText() or x.MarshalBinary() returned
UnmarshalMarshaled ==
    /\ Finished1 /\ codec.c.op \in {"MarshalText", "MarshalBinary"} /\ ~codec.c.panic
    /\ Convert(UnmarshalBinary(ZeroId, codec.c.text), 0)

\* x.Cmp(y), then y.String() beside x.String()
CmpAndMarshalText(y) ==
    /\ Finished1 /\ codec.c.op = "MarshalText" /\ ~codec.c.panic
    /\ codec.c.bs \in OrderIds
    /\ Convert(MarshalText(y), Cmp(codec.c.bs, y))

\* Parse(t), then the String() of the Id
StringOfParsed ==
    /\ Finished1 /\ codec.c.op = "Parse" /\ codec.c.err = "nil"
    /\ Convert(MarshalText(codec.c.bs), 0)

\* Parse(t), then UnmarshalText of t in upper or in lower case into the same Id
UnmarshalOtherCase(upper) ==
    /\ Finished1 /\ codec.c.op = "Parse"
    /\ Convert(UnmarshalText(codec.c.bs, IF upper THEN ToUpper(codec.c.in)
                                                   ELSE ToLower(codec.c.in)), 0)

\* FromFields(timestamp, counterHi, counterLo, entropy)
CallFromFields(f) == Fresh /\ Convert(FromFieldsWords(f[1], f[2], f[3], f[4]), 0)

\* the four accessors of x
CallFields(x) == Fresh /\ Convert(Fields(x), 0)

\* the four accessors of the Id that FromFields returned
FieldsOfBuilt ==
    /\ Finished1 /\ codec.c.op = "FromFields" /\ ~codec.c.panic
    /\ Convert(Fields(codec.c.bs), 0)

\* FromFields(x.Timestamp(), x.CounterHi(), x.CounterLo(), x.Entropy())
FromFieldsOfFields ==
    /\ Finished1 /\ codec.c.op = "Fields"
    /\ Convert(FromFieldsWords(codec.c.in[1], codec.c.in[2], codec.c.in[3], codec.c.in[4]), 0)

\* new(Id).UnmarshalBinary(d), then new(Id).UnmarshalText(d)
UnmarshalTextOfData ==
    /\ Finished1 /\ codec.c.op = "UnmarshalBinary"
    /\ Convert(UnmarshalText(ZeroId, codec.c.in), 0)

\* FromFields of the largest fields, then UnmarshalText or UnmarshalBinary of
\* d into the Id that was built
UnmarshalIntoBuilt(d, binary) ==
    /\ Finished1 /\ codec.c.op = "FromFields" /\ ~codec.c.panic
    /\ codec.c.bs = Span(1, 16, 255)
    /\ Convert(IF binary THEN UnmarshalBinary(codec.c.bs, d)
                         ELSE UnmarshalText(codec.c.bs, d), 0)

\* FromFields(...).String()
StringOfBuilt ==
    /\ Finished1 /\ codec.c.op = "FromFields" /\ ~codec.c.panic
    /\ Convert(MarshalText(codec.c.bs), 0)

\* the conversion in progress runs one pass of its loop
ConvRun ==
    /\ codec.c.pc \in {"EncodeLoop", "DecodeLoop"}
    /\ codec' = [codec EXCEPT !.c = ConvStep(@)]
    /\ UNCHANGED <<g, lock, th, last, before, calls>>

NextCodec ==
    \/ \E x \in Ids : CallMarshalText(x) \/ CallMarshalBinary(x)
    \/ \E t \in Texts : CallParse(t)
    \/ \E d \in Datas : CallUnmarshalBinary(d)
    \/ ParseString
    \/ UnmarshalMarshaled
    \/ \E y \in OrderIds : CmpAndMarshalText(y)
    \/ StringOfParsed
    \/ \E upper \in BOOLEAN : UnmarshalOtherCase(upper)
    \/ \E f \in FieldTuples : CallFromFields(f)
    \/ \E x \in Ids : CallFields(x)
    \/ FieldsOfBuilt
    \/ FromFieldsOfFields
    \/ UnmarshalTextOfData
    \/ StringOfBuilt
    \/ \E d \in Datas \cup MagnitudeTexts, binary \in BOOLEAN : UnmarshalIntoBuilt(d, binary)
    \/ ConvRun

SpecCodec == Init /\ [][NextCodec]_vars

-----------------------------------------------------------------------------
(* Properties *)

\* the arguments of call c are in the documented domain
ValidArguments(c) ==
    /\ c.timestamp \in 1..maxTimestamp
    /\ c.rollbackAllowance \in 0..maxTimestamp

AbortFlavor(op) == op \in {"GenerateOrAbort", "GenerateOrAbortCore"}

\* what must differ between two IDs of one generator
Tuple(id) == <<Timestamp(id), CounterHi(id), CounterLo(id)>>

AllIdle == \A t \in Threads : th[t].pc = "idle"

C2_AbortMonotonic ==
    /\ last.kind = "id" => \A p \in before : Cmp(last.id, p) = 1
    /\ last.kind \in {"ErrClockRollback", "RngError"} => last.id = ZeroId

\* an ID, then a call refused with ErrClockRollback, then another ID
C2_Witness ==
    /\ last.kind = "id"
    /\ last.prevKind = "ErrClockRollback"
    /\ before # {}

\* the call `last` found the generator, left by a generation, at the
\* timestamp that is exactly d more than rollbackAllowance ahead of its own
BehindBy(d) ==
    /\ last.op # "none"
    /\ ValidArguments(last)
    /\ last.prevKind = "id"
    /\ last.timestamp + last.rollbackAllowance + d = last.pre.timestamp

\* a call one millisecond past the allowance is handled as a rollback: the
\* abort flavor returns ErrClockRollback and leaves the state alone, the
\* reset flavor resets the state and generates again
C3_RollbackBeyond ==
    BehindBy(1) =>
        /\ AbortFlavor(last.op) => (last.kind = "ErrClockRollback" /\ g = last.pre)
        /\ ResetFlavor(last.op) => (last.reset /\ last.kind # "ErrClockRollback")

C4_AbortLeavesState ==
    (AbortFlavor(last.op) /\ last.kind = "ErrClockRollback") =>
        /\ g = last.pre
        /\ last.draws = 0
        /\ last.id = ZeroId

\* GenerateOrAbortCore refused a timestamp behind a generator that has a
\* timestamp and counters to lose
C4_Witness ==
    /\ last.op = "GenerateOrAbortCore"
    /\ last.kind = "ErrClockRollback"
    /\ last.pre.tsCounterHi > 0
    /\ last.pre.counterLo > 0

\* the reset flavor never reports ErrClockRollback to its caller
ResetNeverReportsRollback ==
    ResetFlavor(last.op) => last.kind # "ErrClockRollback"

\* C5: a reset-flavor call with valid arguments never returns
\* ErrClockRollback, and if no random draw fails it returns an ID.
C5_ResetAlwaysGenerates ==
    (ResetFlavor(last.op) /\ ValidArguments(last)) =>
        /\ last.kind # "ErrClockRollback"
        /\ last.failedAt = "none" => last.kind = "id"

\* C6 as stated: the (timestamp, counter_hi, counter_lo) tuples of all the
\* IDs that threads obtain from Generate on one generator are pairwise
\* distinct.
C6_TuplesDistinct ==
    last.kind = "id" => \A p \in before : Tuple(p) # Tuple(last.id)

\* C6, amended: the (timestamp, counter_hi, counter_lo) tuples of the IDs
\* that threads obtain from Generate on one generator are pairwise distinct
\* as long as no call has reset the generator after a clock rollback.
C6_TuplesDistinctUntilReset ==
    (last.kind = "id" /\ ~last.everReset) =>
        \A p \in before : Tuple(p) # Tuple(last.id)

\* two threads each obtained an ID, the second for an earlier clock reading
C6_Witness ==
    /\ last.kind = "id"
    /\ last.prevKind = "id"
    /\ last.by # last.prevBy
    /\ last.timestamp < Timestamp(last.prevId)
    /\ ~last.everReset

\* C7: at most one thread is inside the generation algorithm, and it holds
\* the lock; it found the generator as the previous call left it, so the
\* four fields change as one unit relative to other calls; the lock is free
\* again after every call, whether it returned an ID, an RNG error or
\* ErrClockRollback.
C7_MutualExclusion ==
    /\ \A t, u \in Threads : (th[t].pc # "idle" /\ th[u].pc # "idle") => t = u
    /\ \A t \in Threads : th[t].pc # "idle" => (lock = t /\ th[t].pre = last.post)
    /\ AllIdle => (lock = 0 /\ g = last.post)

\* a thread's GenerateOrAbort ended in ErrClockRollback after another
\* thread's call, and the lock is free
C7_Witness ==
    /\ AllIdle
    /\ lock = 0
    /\ last.op = "GenerateOrAbort"
    /\ last.kind = "ErrClockRollback"
    /\ last.prevBy # 0
    /\ last.prevBy # last.by

\* C8: a call whose arguments are in the documented domain never panics: the
\* timestamp, counter_hi and counter_lo it hands to FromFields are in
\* FromFields' domain.
C8_ValidArgumentsNeverPanic ==
    ValidArguments(last) => last.kind # "panic"

ArgumentPanics ==
    {"timestamp must be a 48-bit positive integer",
     "rollbackAllowance out of reasonable range"}

\* the argument checks panic for exactly the arguments out of range, before
\* any state is changed and any random word drawn
ArgumentPanicsComeFirst ==
    last.op # "none" =>
        /\ (last.kind = "panic" /\ last.msg \in ArgumentPanics) <=> ~ValidArguments(last)
        /\ ~ValidArguments(last) => (g = last.pre /\ last.draws = 0)

\* C9: the Core entry points panic exactly when timestamp = 0, timestamp >
\* 2^48 - 1 or rollbackAllowance > 2^48 - 1, before they change any state
\* field or draw a random word, and never report these conditions as a
\* returned error.
C9_PanicExactlyOnBadArguments ==
    last.op # "none" =>
        /\ last.kind = "panic" <=> ~ValidArguments(last)
        /\ last.kind = "panic" => (g = last.pre /\ last.draws = 0)

\* the generator that call `last` started its final pass from
PassStart ==
    IF last.reset THEN [last.pre EXCEPT !.timestamp = 0, !.tsCounterHi = 0] ELSE last.pre

\* C10: when a random draw fails, the call returns an error other than
\* ErrClockRollback and the zero Id; the state changes made before the
\* failing draw remain (the adopted or incremented timestamp, the cleared
\* counters, the new tsCounterHi) and the state is not changed after it.
C10_RngFailurePropagates ==
    last.failedAt # "none" =>
        /\ last.kind = "RngError"
        /\ last.id = ZeroId
        /\ g = last.atFail
        /\ last.status = "NewTimestamp" => g.timestamp = last.timestamp
        /\ last.status = "TimestampInc" => g.timestamp = PassStart.timestamp + 1
        /\ last.failedAt = "DrawCounterLo" =>
               g = [PassStart EXCEPT !.timestamp = last.timestamp]
        /\ last.failedAt = "RedrawCounterLo" =>
               g = [PassStart EXCEPT !.timestamp = @ + 1, !.counterHi = 0, !.counterLo = 0]
        /\ last.failedAt = "DrawCounterHi" =>
               /\ g.tsCounterHi = g.timestamp
               /\ g.counterHi = CASE last.status = "CounterHiInc" -> PassStart.counterHi + 1
                                   [] last.status = "TimestampInc" -> 0
                                   [] OTHER -> PassStart.counterHi

\* the draw of counterHi failed after tsCounterHi had been set
C10_Witness ==
    /\ last.failedAt = "DrawCounterHi"
    /\ last.kind = "RngError"
    /\ g.tsCounterHi # last.pre.tsCounterHi

-----------------------------------------------------------------------------
(* Properties of the conversions *)

\* the conversion that has finished, the one before it, and whether there is
\* a finished pair of the two given methods
Cur == codec.c
Prev == codec.prev
Done(op) == codec.c.pc = "done" /\ codec.c.op = op
DoneAfter(op, prevOp) == codec.depth = 2 /\ Done(op) /\ codec.prev.op = prevOp

\* C11: text round trip: for every Id x, String() returns a text and Parse of
\* that text succeeds and returns x.
C11_TextRoundTrip ==
    /\ Done("MarshalText") => ~Cur.panic /\ Cur.err = "nil" /\ Len(Cur.text) = 25
    /\ DoneAfter("Parse", "MarshalText") => Cur.err = "nil" /\ Cur.bs = Prev.in

\* the Id of sixteen different bytes came back from Parse(x.String())
C11_Witness ==
    /\ DoneAfter("Parse", "MarshalText")
    /\ Prev.in = <<1, 2, 3, 4, 5, 6, 7, 8, 9, 10, 11, 12, 13, 14, 15, 16>>
    /\ Cur.bs = Prev.in

\* Values of up to 130 bits are compared by their residues: the product of
\* these ten primes exceeds 2^149.
Moduli == {32749, 32719, 32717, 32713, 32707, 32693, 32687, 32653, 32647, 32633}

\* the residue modulo p of the numeral ds, most significant digit first
RECURSIVE NumeralMod(_, _, _)
NumeralMod(ds, base, p) ==
    IF ds = <<>> THEN 0
    ELSE (NumeralMod(SubSeq(ds, 1, Len(ds) - 1), base, p) * base + ds[Len(ds)]) % p

\* the residue of an unsigned integer held as limbs
WordMod(w, p) == NumeralMod([k \in 1..Len(w) |-> w[Len(w) + 1 - k]], 256, p)

RECURSIVE PowMod(_, _, _)
PowMod(b, n, p) == IF n = 0 THEN 1 ELSE (PowMod(b, n - 1, p) * b) % p

\* timestamp * 2^80 + counter_hi * 2^56 + counter_lo * 2^32 + entropy, modulo p
PackingMod(f, p) ==
    LET t == (WordMod(f[1], p) * PowMod(256, 10, p)) % p
        h == (WordMod(f[2], p) * PowMod(256, 7, p)) % p
        l == (WordMod(f[3], p) * PowMod(256, 4, p)) % p
    IN  (t + h + l + WordMod(f[4], p)) % p

\* timestamp <= 2^48 - 1, counter_hi <= 2^24 - 1, counter_lo <= 2^24 - 1
InFieldRange(f) == f[1][7] = 0 /\ f[1][8] = 0 /\ f[2][4] = 0 /\ f[3][4] = 0

\* C12: field layout: for field values in range FromFields returns the Id
\* whose value is timestamp * 2^80 + counter_hi * 2^56 + counter_lo * 2^32 +
\* entropy, the four accessors of that Id return exactly the four values, and
\* for every Id x FromFields of the accessors of x returns x.
C12_FieldLayout ==
    /\ Done("FromFields") /\ InFieldRange(Cur.in) =>
           /\ ~Cur.panic
           /\ \A p \in Moduli : NumeralMod(Cur.bs, 256, p) = PackingMod(Cur.in, p)
    /\ DoneAfter("Fields", "FromFields") => Cur.in = Prev.in
    /\ DoneAfter("FromFields", "Fields") => ~Cur.panic /\ Cur.bs = Prev.bs

\* the accessors returned four different non-zero field values given to
\* FromFields
C12_Witness ==
    /\ DoneAfter("Fields", "FromFields")
    /\ Prev.in = << <<17, 34, 51, 68, 85, 102, 0, 0>>, <<1, 2, 3, 0>>,
                    <<255, 255, 255, 0>>, <<1, 2, 3, 4>> >>
    /\ Cur.in = Prev.in
    /\ Cur.bs = <<102, 85, 68, 51, 34, 17, 3, 2, 1, 255, 255, 255, 4, 3, 2, 1>>

\* C13: binary form: MarshalBinary returns the 16 bytes of the Id unchanged;
\* UnmarshalBinary of exactly 16 bytes copies them and never reads them as a
\* text; UnmarshalBinary of any other length ends as UnmarshalText of the same
\* input does; and UnmarshalBinary of x.MarshalText() (and of
\* x.MarshalBinary()) gives x.
C13_BinaryForm ==
    /\ Done("MarshalBinary") => Cur.err = "nil" /\ Cur.text = Cur.in /\ Len(Cur.text) = 16
    /\ Done("UnmarshalBinary") /\ Len(Cur.in) = 16 => Cur.err = "nil" /\ Cur.bs = Cur.in
    /\ DoneAfter("UnmarshalText", "UnmarshalBinary") /\ Len(Cur.in) # 16 =>
           Cur.err = Prev.err /\ Cur.bs = Prev.bs
    /\ DoneAfter("UnmarshalBinary", "MarshalText") => Cur.err = "nil" /\ Cur.bs = Prev.in
    /\ DoneAfter("UnmarshalBinary", "MarshalBinary") => Cur.err = "nil" /\ Cur.bs = Prev.in

\* sixteen bytes that are all the digit '0' were copied, not parsed
C13_Witness ==
    /\ codec.depth = 1 /\ Done("UnmarshalBinary")
    /\ Cur.in = [k \in 1..16 |-> 48]
    /\ Cur.bs = Cur.in
    /\ Cur.err = "nil"

\* the text of the largest Id given to UnmarshalBinary was read as a text
C13_WitnessText ==
    /\ DoneAfter("UnmarshalBinary", "MarshalText")
    /\ Prev.in = [k \in 1..16 |-> 255]
    /\ Cur.bs = Prev.in

\* the borrow out of byte k when other is subtracted from bs, from the last
\* byte up: x < y as 128-bit unsigned integers iff it is 1 at the first byte
RECURSIVE Borrow(_, _, _)
Borrow(bs, other, k) ==
    IF k > 16 THEN 0
    ELSE IF bs[k] - other[k] - Borrow(bs, other, k + 1) < 0 THEN 1 ELSE 0

NumLess(bs, other) == Borrow(bs, other, 1) = 1

\* s < t for strings, byte by byte (code point order for these texts)
LexLess(s, t) ==
    \/ \E k \in 1..Len(s) :
          /\ k <= Len(t)
          /\ \A m \in 1..(k - 1) : s[m] = t[m]
          /\ s[k] < t[k]
    \/ Len(s) < Len(t) /\ \A m \in 1..Len(s) : s[m] = t[m]

\* C14: order equivalence: for Ids x and y, x.Cmp(y) is -1, 0 or 1 as the
\* 128-bit unsigned value of x is smaller than, equal to or greater than
\* that of y, and as x.String() is smaller than, equal to or greater than
\* y.String() in code point order.
C14_OrderEquivalence ==
    DoneAfter("MarshalText", "MarshalText") =>
        /\ codec.cmp \in {-1, 0, 1}
        /\ codec.cmp = -1 <=> NumLess(Prev.in, Cur.in)
        /\ codec.cmp = 1 <=> NumLess(Cur.in, Prev.in)
        /\ codec.cmp = 0 <=> Prev.in = Cur.in
        /\ codec.cmp = -1 <=> LexLess(Prev.text, Cur.text)
        /\ codec.cmp = 1 <=> LexLess(Cur.text, Prev.text)
        /\ codec.cmp = 0 <=> Prev.text = Cur.text

\* 255 compared with 2^48: smaller, although its last byte is greater
C14_Witness ==
    /\ DoneAfter("MarshalText", "MarshalText")
    /\ Prev.in = Span(16, 16, 255)
    /\ Cur.in = Span(10, 10, 1)
    /\ codec.cmp = -1
    /\ LexLess(Prev.text, Cur.text)

\* C15: canonical text form: for every Id, String() / MarshalText() yields
\* exactly 25 characters, each of them one of 0-9 and a-z.
C15_CanonicalLowercase ==
    Done("MarshalText") =>
        /\ Len(Cur.text) = 25
        /\ \A k \in 1..Len(Cur.text) : Cur.text[k] \in (48..57) \cup (97..122)

\* what the program yields instead: 25 characters, each one of 0-9 and A-Z
C15_UppercaseOutput ==
    Done("MarshalText") =>
        /\ Len(Cur.text) = 25
        /\ \A k \in 1..Len(Cur.text) : Cur.text[k] \in (48..57) \cup (65..90)

\* the value of a digit character in either letter case, 36 for the others
CharValue(ch) ==
    IF ch \in 48..57 THEN ch - 48
    ELSE IF ch \in 97..122 THEN ch - 87
    ELSE IF ch \in 65..90 THEN ch - 55
    ELSE 36

DigitValues(text) == [k \in 1..Len(text) |-> CharValue(text[k])]

\* the text is a base-36 numeral of the value of the Id bs
SameValue(text, bs) ==
    /\ \A k \in 1..Len(text) : CharValue(text[k]) < 36
    /\ \A p \in Moduli : NumeralMod(DigitValues(text), 36, p) = NumeralMod(bs, 256, p)

\* C16: exact base-36 encoding: for every Id, the 25 digits that MarshalText
\* produces, read as a base-36 numeral, equal the 128-bit unsigned value of
\* the Id (so the numeral is padded with the zero symbol on the left); the
\* all-zero Id encodes to 25 zero symbols.
C16_ExactBase36 ==
    Done("MarshalText") =>
        /\ Len(Cur.text) = 25
        /\ SameValue(Cur.text, Cur.in)
        /\ Cur.in = ZeroId => Cur.text = [k \in 1..25 |-> 48]

\* the Id of value 2^56 (a one in the byte above the last 56-bit word) was
\* encoded, its numeral padded with fourteen zero symbols
C16_Witness ==
    /\ Done("MarshalText")
    /\ Cur.in = Span(9, 9, 1)
    /\ SameValue(Cur.text, Cur.in)
    /\ \A k \in 1..14 : Cur.text[k] = 48
    /\ Cur.text[15] # 48

\* the digits of 2^128 - 1 in base 36 (f 5 l x x 1 z z 5 p n o r y n q g l h z m s p 3 3)
MaxDigits ==
    <<15, 5, 21, 33, 33, 1, 35, 35, 5, 25, 23, 24, 27, 34, 23, 26, 16, 21, 17,
      35, 22, 28, 25, 3, 3>>

\* timestamp = 0xFFFFFFFFFFFF, counter_hi = 0xFFFFFF, counter_lo = 0xFFFFFF,
\* entropy = 0xFFFFFFFF
MaxFields ==
    << <<255, 255, 255, 255, 255, 255, 0, 0>>, <<255, 255, 255, 0>>,
       <<255, 255, 255, 0>>, <<255, 255, 255, 255>> >>

\* String() of the Id that FromFields built from the largest field values
MaxEncoded == DoneAfter("MarshalText", "FromFields") /\ Prev.in = MaxFields

\* C17 as stated: the Id built from the largest field values encodes to the
\* 25-character string in which every symbol is the digit "z" (of value 35,
\* in whichever letter case).
C17_MaxIsAllZ ==
    MaxEncoded => Len(Cur.text) = 25 /\ \A k \in 1..Len(Cur.text) : CharValue(Cur.text[k]) = 35

\* C17: maximum-value example: the Id built from the largest field values is
\* the largest Id, and it encodes to the 25 digits of 2^128 - 1 in base 36,
\* which are those of "f5lxx1zz5pnorynqglhzmsp33" and not all "z".
C17_MaxIsNumeralOfMax ==
    MaxEncoded =>
        /\ Cur.in = [k \in 1..16 |-> 255]
        /\ Len(Cur.text) = 25
        /\ DigitValues(Cur.text) = MaxDigits
        /\ \E k \in 1..25 : CharValue(Cur.text[k]) # 35

\* the largest Id was built from its fields and encoded; its text begins
\* with the digit of value 15 and ends with the digit 3
C17_Witness ==
    /\ MaxEncoded
    /\ CharValue(Cur.text[1]) = 15
    /\ Cur.text[25] = 51

\* a call of Parse or of UnmarshalText has returned
Parsed == Done("Parse") \/ Done("UnmarshalText")

\* the input has a byte that is none of 0-9, a-z, A-Z
HasBadByte(text) == \E k \in 1..Len(text) : CharValue(text[k]) = 36

\* C18: validation of shape: Parse / UnmarshalText returns an error for
\* every input whose length is not exactly 25 bytes and for every 25-byte
\* input with a byte outside 0-9, a-z, A-Z (space, '+', '-', '_', tab, bytes
\* of multi-byte characters among them).
C18_ShapeValidation ==
    Parsed =>
        /\ Len(Cur.in) # 25 => Cur.err = "invalid length"
        /\ Len(Cur.in) = 25 /\ HasBadByte(Cur.in) => Cur.err = "invalid digit"

\* a text with '_' as its fifteenth byte was rejected by Parse
C18_Witness ==
    /\ Done("Parse")
    /\ Cur.in = [GoodText EXCEPT ![15] = 95]
    /\ Cur.err = "invalid digit"

\* the value of the 25-digit numeral is at most 2^128 - 1: its digits do not
\* come after those of 2^128 - 1
InRange(text) == ~LexLess(MaxDigits, DigitValues(text))

\* C19: validation of magnitude: for every 25-character string of 0-9, a-z,
\* A-Z, Parse / UnmarshalText succeeds exactly when the base-36 value of the
\* string is at most 2^128 - 1, and then the Id has that value;
\* "f5lxx1zz5pnorynqglhzmsp33" is accepted, "f5lxx1zz5pnorynqglhzmsp34" and
\* "zzzzzzzzzzzzzzzzzzzzzzzzz" are rejected.
C19_MagnitudeValidation ==
    Parsed /\ Len(Cur.in) = 25 /\ ~HasBadByte(Cur.in) =>
        /\ Cur.err = "nil" <=> InRange(Cur.in)
        /\ Cur.err = "nil" => SameValue(Cur.in, Cur.bs)
        /\ Cur.err # "nil" => Cur.err = "out of 128-bit value range"
        /\ Cur.in = MaxText => Cur.err = "nil" /\ Cur.bs = [k \in 1..16 |-> 255]
        /\ Cur.in = [MaxText EXCEPT ![25] = 52] => Cur.err # "nil"
        /\ Cur.in = [k \in 1..25 |-> 122] => Cur.err # "nil"

\* the text one above the largest value was rejected by Parse
C19_Witness ==
    /\ Done("Parse")
    /\ Cur.in = [MaxText EXCEPT ![25] = 52]
    /\ Cur.err = "out of 128-bit value range"

\* the text of the largest value was accepted by Parse
C19_WitnessAccepted ==
    /\ Done("Parse")
    /\ Cur.in = MaxText
    /\ Cur.err = "nil"

\* a valid text was parsed and then its form in one letter case
CaseVariantParsed == DoneAfter("UnmarshalText", "Parse") /\ Prev.err = "nil"

\* a valid text was parsed and String() of the Id has returned
ParsedThenString == DoneAfter("MarshalText", "Parse")

\* C20: case-insensitive input: for every valid 25-character text, parsing
\* the text, its all-uppercase form and its all-lowercase form yields the same
\* Id, and String() of that Id is the canonical (lowercase) form of the text,
\* whatever the letter case of the input.
C20_CaseInsensitiveCanonical ==
    /\ CaseVariantParsed => Cur.err = "nil" /\ Cur.bs = Prev.bs
    /\ ParsedThenString => Cur.text = ToLower(Prev.in)

\* what holds of the program: the three forms of a valid text yield the same
\* Id, and String() of it is one form whatever the case of the input, the
\* uppercase one
C20_CaseInsensitiveInput ==
    /\ CaseVariantParsed => Cur.err = "nil" /\ Cur.bs = Prev.bs
    /\ ParsedThenString => Cur.text = ToUpper(Prev.in)

\* a text of mixed case and its lowercase form were parsed to the same Id
C20_Witness ==
    /\ CaseVariantParsed
    /\ Prev.in # ToLower(Prev.in)
    /\ Prev.in # ToUpper(Prev.in)
    /\ Cur.in = ToLower(Prev.in)
    /\ Cur.bs = Prev.bs

\* the field tuple f with field n replaced by the value one past its maximum
\* (2^48 for the timestamp, 2^24 for a counter)
OnePast(f, n) ==
    [f EXCEPT ![n] = IF n = 1 THEN <<0, 0, 0, 0, 0, 0, 1, 0>> ELSE <<0, 0, 0, 1>>]

\* C21: domain boundaries of FromFields: it accepts the maximum value of
\* every field (2^48 - 1, 2^24 - 1, 2^24 - 1, 2^32 - 1) and panics, rather
\* than return a value or truncate, when timestamp, counter_hi or counter_lo
\* is one past its maximum.
C21_FieldBoundaries ==
    Done("FromFields") =>
        /\ Cur.in = MaxFields => ~Cur.panic /\ Cur.bs = [k \in 1..16 |-> 255]
        /\ InFieldRange(Cur.in) => ~Cur.panic
        /\ \A n \in 1..3 : \A f \in FieldTuples :
               InFieldRange(f) /\ Cur.in = OnePast(f, n) => Cur.panic /\ Cur.bs = ZeroId
        /\ ~InFieldRange(Cur.in) => Cur.panic

\* FromFields was given counter_lo = 2^24 beside the maxima of the other
\* fields and panicked
C21_Witness ==
    /\ Done("FromFields")
    /\ Cur.in = OnePast(MaxFields, 3)
    /\ Cur.panic

-----------------------------------------------------------------------------
(* Properties of the generator, continued *)

\* the call `last`, made with allowance 10000, found the generator, left by a
\* generation at timestamp ts, exactly d more than 10000 ahead of its own
\* timestamp
TestBehindBy(d) ==
    /\ last.prevKind = "id"
    /\ last.rollbackAllowance = 10000
    /\ Timestamp(last.prevId) = last.pre.timestamp
    /\ last.timestamp + 10000 + d = last.pre.timestamp

\* a call handled as a clock rollback: the abort flavor returns
\* ErrClockRollback and changes nothing, the reset flavor resets and an ID it
\* returns has the timestamp of the call and is smaller than the previous ID
HandledAsRollback ==
    /\ AbortFlavor(last.op) => (last.kind = "ErrClockRollback" /\ g = last.pre)
    /\ ResetFlavor(last.op) =>
           /\ last.reset
           /\ last.kind = "id" =>
                  (Timestamp(last.id) = last.timestamp /\ Cmp(last.id, last.prevId) = -1)

C22_WitnessReset ==
    /\ TestBehindBy(1)
    /\ last.op = "GenerateOrResetCore"
    /\ last.kind = "id"
    /\ last.reset

\* n & 0xffffff of a random word n
Low24(n) == n % 16777216

\* the argument of call `last` was valid and greater than the state timestamp
NewerTimestamp == ValidArguments(last) /\ last.op # "none" /\ last.timestamp > last.pre.timestamp

\* C23: new-timestamp step: every returned ID has a timestamp field not
\* smaller than the timestamp argument of its call; when the argument is
\* greater than the state timestamp, as it always is on a new generator, the
\* state timestamp and the timestamp field of the ID equal the argument, and
\* counter_lo is the random word drawn first, masked to 24 bits.
C23_NewTimestampStep ==
    /\ last.kind = "id" => Timestamp(last.id) >= last.timestamp
    /\ (ValidArguments(last) /\ last.op # "none" /\ last.pre = NewGeneratorWithRng) =>
           NewerTimestamp
    /\ NewerTimestamp =>
           /\ last.status = "NewTimestamp"
           /\ ~last.reset
           /\ g.timestamp = last.timestamp
           /\ last.kind \in {"id", "RngError"}
           /\ last.kind = "id" =>
                  /\ Timestamp(last.id) = last.timestamp
                  /\ g.counterLo = Low24(last.words[1])
                  /\ CounterLo(last.id) = Low24(last.words[1])

\* a generator that had a timestamp and had counted adopted a greater
\* timestamp; the word drawn for counter_lo had bits above the 24th
C23_Witness ==
    /\ NewerTimestamp
    /\ last.kind = "id"
    /\ last.pre.timestamp > 0
    /\ last.pre.counterLo # g.counterLo
    /\ last.words[1] > 16777215
    /\ g.counterLo = 16777215

\* thread t has taken the branch of its call and stands before the test of
\* the counter_hi renewal
AfterBranch(t) == th[t].pc = "CheckRenewal"

\* (timestamp, counter_hi, counter_lo) of generator a comes before that of b
TupleLess(a, b) ==
    \/ a.timestamp < b.timestamp
    \/ a.timestamp = b.timestamp /\ a.counterHi < b.counterHi
    \/ a.timestamp = b.timestamp /\ a.counterHi = b.counterHi /\ a.counterLo < b.counterLo

\* the state the pass of thread t started from
StartOf(t) ==
    IF th[t].reset THEN [th[t].pre EXCEPT !.timestamp = 0, !.tsCounterHi = 0] ELSE th[t].pre

C24_WitnessCounterHi ==
    \E t \in Threads :
        /\ AfterBranch(t)
        /\ th[t].status = "CounterHiInc"
        /\ g.counterHi = 1
        /\ g.counterLo = 0


\* the last call got past the branch of generator.go:314-341: it neither
\* panicked on its arguments, nor reported a rollback, nor failed in a draw
\* for counter_lo
PassedBranch ==
    /\ last.status \in {"NewTimestamp", "CounterLoInc", "CounterHiInc", "TimestampInc"}
    /\ last.failedAt \notin {"DrawCounterLo", "RedrawCounterLo"}

\* the number of words the branch of the last call drew
BranchDraws == IF last.status \in {"NewTimestamp", "TimestampInc"} THEN 1 ELSE 0

\* counter_hi as the branch of the last call left it
BranchCounterHi ==
    CASE last.status = "CounterHiInc" -> PassStart.counterHi + 1
      [] last.status = "TimestampInc" -> 0
      [] OTHER                        -> PassStart.counterHi

\* the renewal of counter_hi is due in the last call: the state timestamp is
\* 1000 or more ahead of ts_counter_hi, or ts_counter_hi is unset
RenewalDue ==
    \/ g.timestamp - PassStart.tsCounterHi >= 1000
    \/ PassStart.tsCounterHi = 0

C25_WitnessKept ==
    /\ last.kind = "id"
    /\ ~RenewalDue
    /\ g.timestamp - g.tsCounterHi = 999
    /\ g.counterHi = last.pre.counterHi

\* a call 1000 ms after the last renewal renews counter_hi
C25_WitnessAged ==
    /\ last.kind = "id"
    /\ ~last.reset
    /\ last.pre.tsCounterHi # 0
    /\ last.timestamp - last.pre.tsCounterHi = 1000
    /\ g.tsCounterHi = last.timestamp


\* the last call took the reset path of GenerateOrResetCore and the random
\* reads it made did not fail
ResetDone == last.reset /\ last.kind = "id"

\* the ID returned last before the last call: that of the call before, or,
\* when that call returned none, the one returned before it
PreviousIds == IF last.prevKind = "id" THEN {last.prevId} ELSE before

\* no random read failed in the call before the last one (with up to three
\* calls, a failed read in the first of them leaves the second to return the
\* previous ID, if there is one)
RngWorkedBefore == last.prevKind # "RngError"

\* the call after a reset returned an ID too, without another reset
AfterReset ==
    /\ last.everReset
    /\ ~last.reset
    /\ last.kind = "id"
    /\ last.prevKind = "id"

\* the reset path but for the order of the IDs: the ID carries the timestamp
\* argument and two freshly drawn counters, the state timestamp and
\* ts_counter_hi are the argument, and the calls that follow within the
\* allowance return increasing IDs; the ID is smaller than that of the call
\* before when that call returned one
C26_ResetOutcomeFields ==
    /\ (ValidArguments(last) /\ last.op = "GenerateOrResetCore"
        /\ last.timestamp + last.rollbackAllowance < last.pre.timestamp
        /\ last.failedAt = "none")
           => (ResetDone \/ last.kind = "panic")
    /\ ResetDone =>
           /\ last.timestamp + last.rollbackAllowance < last.pre.timestamp
           /\ last.status = "NewTimestamp"
           /\ Timestamp(last.id) = last.timestamp
           /\ Len(last.words) = 3
           /\ CounterLo(last.id) = Low24(last.words[1])
           /\ CounterHi(last.id) = Low24(last.words[2])
           /\ g.timestamp = last.timestamp
           /\ g.tsCounterHi = last.timestamp
    /\ (ResetDone /\ last.prevKind = "id") => Cmp(last.id, last.prevId) < 0
    /\ AfterReset => Cmp(last.prevId, last.id) < 0

\* C26: outcome of the reset path: when GenerateOrResetCore is called with a
\* timestamp below the state timestamp by more than the allowance and the
\* RNG does not fail, the ID carries the timestamp argument and freshly
\* drawn counter_hi and counter_lo, it is smaller than the previously
\* returned ID, afterwards state.timestamp = ts_counter_hi = the argument,
\* and later calls within the allowance are strictly increasing again.
C26_ResetOutcome ==
    /\ C26_ResetOutcomeFields
    /\ (ResetDone /\ RngWorkedBefore) => \A p \in PreviousIds : Cmp(last.id, p) < 0

\* a reset after the timestamp was carried past 2^48 - 1 returns an ID that
\* is not smaller than the one returned before
C26_ResetNotSmaller ==
    /\ ResetDone
    /\ RngWorkedBefore
    /\ last.pre.timestamp > maxTimestamp
    /\ \E p \in PreviousIds : Cmp(last.id, p) >= 0


\* what a caller and an observer of the RNG see of the outcome o of a call:
\* the words read and the read that failed, what the call returned, and the
\* generator it left
Observed(o) ==
    [words |-> o.f.words, draws |-> o.f.draws, failedAt |-> o.f.failedAt,
     kind |-> o.f.kind, msg |-> o.f.msg, id |-> o.f.id, g |-> o.g]

\* the outcomes of a call of flavor op with arguments a on the generator as
\* it is
OutcomesOf(op, a) == {Observed(o) : o \in Run(g, Enter(op, a[1], a[2], g))}

ValidArgumentPairs == {a \in Arguments : a[1] \in 1..maxTimestamp /\ a[2] \in 0..maxTimestamp}

\* GenerateOrAbortCore with arguments a does not report a rollback
NoRollbackFor(a) ==
    \A o \in OutcomesOf("GenerateOrAbortCore", a) : o.kind # "ErrClockRollback"

\* the reads of the RNG determine the outcome
DeterminedByReads(outcomes) ==
    \A o1, o2 \in outcomes :
        (o1.words = o2.words /\ o1.failedAt = o2.failedAt) => o1 = o2

\* C27: the two flavors differ only on a big clock rewind: from every
\* generator state and for all valid arguments for which GenerateOrAbortCore
\* does not return ErrClockRollback, GenerateOrResetCore with the same RNG
\* outputs returns the same ID or the same RNG error and leaves the same
\* state.
C27_FlavorsAgree ==
    \A a \in ValidArgumentPairs :
        NoRollbackFor(a) =>
            /\ OutcomesOf("GenerateOrResetCore", a) = OutcomesOf("GenerateOrAbortCore", a)
            /\ DeterminedByReads(OutcomesOf("GenerateOrResetCore", a))

\* a used generator on which a call with an earlier timestamp is within the
\* allowance: both flavors return the same IDs and the same RNG errors
C27_Witness ==
    \E a \in ValidArgumentPairs :
        /\ a[1] < g.timestamp
        /\ NoRollbackFor(a)
        /\ \E o \in OutcomesOf("GenerateOrResetCore", a) : o.kind = "id"
        /\ \E o \in OutcomesOf("GenerateOrResetCore", a) : o.kind = "RngError"
        /\ OutcomesOf("GenerateOrResetCore", a) = OutcomesOf("GenerateOrAbortCore", a)

\* the flavors do differ where GenerateOrAbortCore reports a rollback
C27_WitnessDiffer ==
    \E a \in ValidArgumentPairs :
        /\ ~NoRollbackFor(a)
        /\ OutcomesOf("GenerateOrResetCore", a) # OutcomesOf("GenerateOrAbortCore", a)


\* the IDs returned by the calls that are over
ReturnedIds == before \cup (IF last.kind = "id" THEN {last.id} ELSE {})

\* thread t is about to return an ID
Returning(t) == th[t].pc = "Returned" /\ th[t].kind = "id"

\* thread t is about to return an ID with the (timestamp, counter_hi,
\* counter_lo) of an ID returned before
SameTuple(t) ==
    Returning(t) /\ \E p \in ReturnedIds : Tuple(p) = Tuple(th[t].id)

\* thread t is about to return an ID that is not greater than one returned
\* before
NotGreater(t) ==
    Returning(t) /\ \E p \in ReturnedIds : Cmp(th[t].id, p) <= 0

\* thread t is about to build its ID from a counter that has left the 24-bit
\* domain
CounterOutOfDomain(t) ==
    /\ th[t].pc = "DrawEntropy"
    /\ (g.counterHi > maxCounterHi \/ g.counterLo > maxCounterLo)

\* some call ran while another thread was in a call
Interleaved == \E t \in Threads : th[t].overlapped

\* some call reset the generator
SomeReset == last.everReset \/ \E t \in Threads : th[t].reset

\* C28: the unlocked entry points are unsafe under concurrency: when two
\* calls of GenerateOrAbortCore / GenerateOrResetCore interleave statement by
\* statement without exclusion, there are executions in which two returned
\* IDs carry the same (timestamp, counter_hi, counter_lo), or a returned ID
\* is not greater than an earlier one, or a counter leaves its 24-bit domain
\* (the witnesses); calls that do not interleave show none of the three
\* unless the generator was reset.
C28_UnsafeOnlyInterleaved ==
    \A t \in Threads :
        /\ CounterOutOfDomain(t) => Interleaved
        /\ (SameTuple(t) \/ NotGreater(t)) => (Interleaved \/ SomeReset)

\* two interleaved calls, no reset: the same tuple is about to be returned a
\* second time
C28_Witness ==
    /\ Interleaved
    /\ ~SomeReset
    /\ \E t \in Threads : SameTuple(t)

\* two interleaved calls, no reset: an ID smaller than an earlier one is
\* about to be returned
C28_WitnessNotGreater ==
    /\ Interleaved
    /\ ~SomeReset
    /\ \E t \in Threads : Returning(t) /\ \E p \in ReturnedIds : Cmp(th[t].id, p) < 0

\* two interleaved calls: an ID is about to be built from a counter of 2^24
C28_WitnessOutOfDomain ==
    /\ Interleaved
    /\ \E t \in Threads : CounterOutOfDomain(t)


\* C29: every generation call terminates: under a fair scheduler and with an
\* RNG whose reads return, each thread that calls Generate or GenerateOrAbort
\* eventually acquires the lock and returns, and GenerateOrResetCore runs
\* the core algorithm at most twice per call.
C29_CallsTerminate ==
    /\ \A t \in Threads : (th[t].pc = "Lock") ~> (lock = t)
    /\ \A t \in Threads : (th[t].pc = "Lock") ~> (th[t].pc = "idle")
    /\ \A t \in Threads : (lock = t) ~> (lock # t)
    /\ [](\A t \in Threads : th[t].pass <= 2)

\* a thread waits at g.lock.Lock() while the other holds the lock in the
\* middle of its call
C29_Witness ==
    \E t, u \in Threads :
        /\ th[t].pc = "Lock"
        /\ lock = u
        /\ th[u].pc = "DrawEntropy"

\* a Generate call that reset the generator runs the core algorithm for the
\* second time
C29_WitnessSecondPass ==
    \E u \in Threads :
        /\ lock = u
        /\ th[u].op = "Generate"
        /\ th[u].pass = 2
        /\ th[u].pc = "DrawEntropy"


\* the last call handled a rollback: GenerateOrAbortCore returned
\* ErrClockRollback, or GenerateOrResetCore reset the state
RollbackHandled == last.kind = "ErrClockRollback" \/ last.reset

\* how far the state timestamp was ahead of the timestamp argument when the
\* last call began
Ahead == last.pre.timestamp - last.timestamp

\* C30: a clock that never goes backwards never causes rollback handling:
\* when the timestamp arguments never decrease from call to call, for every
\* rollbackAllowance GenerateOrAbortCore never returns ErrClockRollback and
\* GenerateOrResetCore never resets the state, even after counter_hi
\* overflow has advanced the state timestamp past the arguments.
C30_SteadyClockNoRollback == ~RollbackHandled

\* C30, amended: with timestamp arguments that never decrease, a rollback is
\* handled only in a call that finds the state timestamp ahead of its
\* argument by more than rollbackAllowance, which takes counter overflows
\* that carried into the timestamp: one call advances it by at most 1, so
\* the n-th call finds it at most n - 2 ahead; a call that finds the state
\* timestamp ahead by no more than the allowance, or not ahead, handles none.
C30_RollbackOnlyWhenAhead ==
    /\ last.op # "none" => Ahead <= calls - 2
    /\ RollbackHandled =>
           /\ Ahead > last.rollbackAllowance
           /\ last.pre.timestamp > last.timestamp
    /\ (last.op # "none" /\ Ahead <= last.rollbackAllowance) => ~RollbackHandled

\* the third call with the same timestamp and allowance 0, after two calls
\* that returned IDs, finds the state timestamp carried one past it and is
\* handled as a rollback
C30_Witness ==
    /\ RollbackHandled
    /\ last.prevKind = "id"
    /\ before # {}
    /\ Ahead = 1
    /\ last.rollbackAllowance = 0
    /\ calls = 3

\* with allowance 1 the same call takes the counter path
C30_WitnessWithin ==
    /\ ~RollbackHandled
    /\ Ahead = 1
    /\ last.rollbackAllowance = 1
    /\ last.status = "CounterLoInc"


\* C31: the counter fields stay in their domain: at every call boundary of
\* the serialized generator (after a successful call, after ErrClockRollback
\* and after a call aborted by an RNG failure at any draw) counter_hi and
\* counter_lo are at most 2^24 - 1; the 2^24 that an increment produces in
\* passing is never left in the state.
C31_CountersInDomain ==
    AllIdle =>
        /\ g.counterHi <= maxCounterHi
        /\ g.counterLo <= maxCounterLo
        /\ last.post = g

\* a call whose read for the new counter_lo failed, after both counters had
\* overflowed, leaves both counters at 0
C31_Witness ==
    /\ AllIdle
    /\ last.kind = "RngError"
    /\ last.failedAt = "RedrawCounterLo"
    /\ last.pre.counterHi = maxCounterHi
    /\ last.pre.counterLo = maxCounterLo
    /\ g.counterHi = 0
    /\ g.counterLo = 0

\* a successful call that carried from counter_lo into counter_hi
C31_WitnessCarry ==
    /\ AllIdle
    /\ last.kind = "id"
    /\ last.status = "CounterHiInc"
    /\ last.pre.counterLo = maxCounterLo
    /\ g.counterLo = 0

\* inside a call under the lock counter_lo does hold 2^24 for a moment
C31_WitnessTransient ==
    \E t \in Threads : th[t].pc = "CheckCounterLo" /\ g.counterLo = maxCounterLo + 1


\* C32: ts_counter_hi never exceeds the state timestamp: at every call
\* boundary, after any sequence of GenerateOrAbortCore / GenerateOrResetCore
\* calls (resets and RNG failures included), ts_counter_hi <= state.timestamp,
\* so that the unsigned subtraction of the refresh test never wraps around.
C32_TsCounterHiBehind ==
    /\ AllIdle => g.tsCounterHi <= g.timestamp
    /\ (AllIdle /\ PassedBranch) => PassStart.tsCounterHi <= g.timestamp

\* a reset to an earlier timestamp brings ts_counter_hi down with the state
\* timestamp
C32_Witness ==
    /\ last.reset
    /\ last.kind = "id"
    /\ last.pre.tsCounterHi > last.timestamp
    /\ g.timestamp = last.timestamp
    /\ g.tsCounterHi = last.timestamp

\* a reset whose first read failed leaves ts_counter_hi at 0
C32_WitnessFailedReset ==
    /\ last.reset
    /\ last.kind = "RngError"
    /\ last.failedAt = "DrawCounterLo"
    /\ g.tsCounterHi = 0
    /\ g.timestamp = last.timestamp


\* UnmarshalText, or UnmarshalBinary, into an Id built by FromFields is over
UnmarshaledInto ==
    \/ DoneAfter("UnmarshalText", "FromFields")
    \/ DoneAfter("UnmarshalBinary", "FromFields")

\* C33: parsing does not clobber its target on failure: whenever
\* UnmarshalText, or UnmarshalBinary delegating to it, returns an error
\* (wrong length, invalid digit, or value out of the 128-bit range), the
\* receiver holds the same 16 bytes as before the call.
C33_TargetKeptOnFailure ==
    (UnmarshaledInto /\ Cur.err # "nil") => Cur.bs = Prev.bs

\* C33, amended: the receiver holds the same 16 bytes as before the call
\* whenever UnmarshalText, or UnmarshalBinary delegating to it, returns the
\* error of a wrong length or of an invalid digit; when it returns the
\* error of a value out of the 128-bit range, which it does for no other
\* texts than those of a greater value, the receiver has been cleared and
\* overwritten in part and need not hold what it held before.
C33_TargetKeptOnShapeFailure ==
    UnmarshaledInto =>
        /\ Cur.err \in {"invalid length", "invalid digit"} => Cur.bs = Prev.bs
        /\ Cur.err = "out of 128-bit value range" =>
               /\ ~InRange(Cur.in)
               /\ \A k \in 1..16 : Cur.bs[k] \in 0..255
        /\ Cur.err \in {"nil", "invalid length", "invalid digit", "out of 128-bit value range"}

\* a text with a byte that is no digit is refused and the Id of 16 bytes
\* 0xff it was to be read into is as before
C33_Witness ==
    /\ DoneAfter("UnmarshalText", "FromFields")
    /\ Cur.err = "invalid digit"
    /\ Cur.in = [GoodText EXCEPT ![5] = 95]
    /\ Cur.bs = Span(1, 16, 255)

\* a text of 25 'z' is refused as out of range and the Id it was to be read
\* into has changed
C33_WitnessClobbered ==
    /\ UnmarshaledInto
    /\ Cur.err = "out of 128-bit value range"
    /\ Cur.in = [k \in 1..25 |-> 122]
    /\ Prev.bs = Span(1, 16, 255)
    /\ Cur.bs # Prev.bs


\* the last call assigned a fresh random value to counter_hi
Refreshed == PassedBranch /\ RenewalDue /\ last.failedAt # "DrawCounterHi"

\* ts_counter_hi after the last call is what the claim makes of it: the state
\* timestamp if the call refreshed counter_hi, else 0 if the call reset the
\* generator, else what it was before the call
TsCounterHiAsRecorded ==
    g.tsCounterHi = (IF Refreshed THEN g.timestamp
                     ELSE IF last.reset THEN 0
                     ELSE last.pre.tsCounterHi)

\* C34: meaning of ts_counter_hi: at every call boundary ts_counter_hi is
\* either 0 (counter_hi never refreshed since creation or reset) or the
\* state timestamp at which counter_hi was last assigned a fresh random
\* value; it never records a refresh that did not take place, also when
\* the random draw for counter_hi fails.
C34_TsCounterHiMeaning ==
    /\ TsCounterHiAsRecorded
    /\ (g.tsCounterHi # 0 /\ g.tsCounterHi # last.pre.tsCounterHi) => Refreshed

\* the same for the calls whose draw for counter_hi did not fail
C34_MeaningUnlessDrawFails ==
    last.failedAt # "DrawCounterHi" =>
        /\ TsCounterHiAsRecorded
        /\ Refreshed => g.counterHi = Low24(last.words[BranchDraws + 1])

\* the first call on a new generator fails in its draw for counter_hi:
\* ts_counter_hi is the timestamp, counter_hi is still 0
C34_FailedDrawRecorded ==
    /\ last.pre = NewGeneratorWithRng
    /\ last.kind = "RngError"
    /\ last.failedAt = "DrawCounterHi"
    /\ g.tsCounterHi = last.timestamp
    /\ g.counterHi = 0

====
